---- MODULE Spec2Model ----
(***************************************************************************)
(* Model of the 4sale electronics scraper.                                 *)
(*                                                                         *)
(*   Spec       DetailsScraping.get_card_details with the nested           *)
(*              scrape_more_details retry loop (src/DetailsScraper.py)     *)
(*   SpecPure   scrape_publish_date and the date-window filter             *)
(*   SpecSched  ElectronicsMainScraper.scrape_all_electronics with its     *)
(*              category tasks (src/normal_code_main.py)                   *)
(*   SpecPager  HierarchialMainScraper.scrape_brands_and_types             *)
(*   SpecHier   process_all, process_hierarchial_electronics and           *)
(*              save_to_excel (src/hierarchial_code_main.py)               *)
(*   SpecSink   one call of a Drive operation with its retries             *)
(*   SpecFolder the dated folder's look-up and creation, once per chunk    *)
(*              (src/SavingOnDrive.py, src/normal_code_main.py)            *)
(*                                                                         *)
(* Strings that the code inspects character by character are sequences of  *)
(* one-character strings; Arabic letters are written by name ("AR_sheen"). *)
(* An empty dict is EmptyDict; opaque page values are one-element tuples.   *)
(***************************************************************************)
EXTENDS Integers, Sequences, FiniteSets, TLC

\* None: a value no str, list or dict equals
None == <<"None">>

\* {} : a dict with no keys
EmptyDict == [k \in {} |-> None]

\* dict.get(key): the value, or None when the key is absent
Get(d, k) == IF k \in DOMAIN d THEN d[k] ELSE None

(***************************************************************************)
(* Bounds                                                                  *)
(***************************************************************************)
\* listing cards on one listing page
MaxCards == 2
\* DetailsScraping(url, retries): largest retries value explored
MaxRetries == 3

(***************************************************************************)
(* DetailsScraping: one attempt of scrape_more_details                     *)
(***************************************************************************)
\* range(3) at DetailsScraper.py:259
DetailRetries == 3

\* the values scrape_more_details reads from one detail page, in code order
DetailFields ==
    <<"id", "description", "image", "price", "address", "additional_details",
      "specifications", "views_no", "submitter", "phone", "relative_date">>

FieldSet == {DetailFields[i] : i \in 1..Len(DetailFields)}

\* What the Page Reader does during one attempt: the navigation succeeds or
\* not, and at most one field's DOM access is absent ("missing": the selector
\* finds nothing) or faults ("error": the Page Reader call raises).
SourceBehaviours ==
    {[nav |-> FALSE, field |-> "none", how |-> "ok"],
     [nav |-> TRUE,  field |-> "none", how |-> "ok"]}
    \cup {[nav |-> TRUE, field |-> f, how |-> h] :
             f \in FieldSet, h \in {"missing", "error"}}

Outcome(b, f) == IF b.field = f THEN b.how ELSE "ok"

\* the detail page loads and every field is extractable
AllOk == [nav |-> TRUE, field |-> "none", how |-> "ok"]

\* scrape_id: no try/except; an absent element gives "" and so no match
scrape_id(b) ==
    CASE Outcome(b, "id") = "error"   -> [raised |-> TRUE]
      [] Outcome(b, "id") = "missing" -> [raised |-> FALSE, value |-> None]
      [] OTHER                        -> [raised |-> FALSE, value |-> <<"id">>]

\* scrape_description: DetailsScraping defines no such method, so the call at
\* DetailsScraper.py:267 raises AttributeError whatever the page holds
scrape_description(b) == [raised |-> TRUE]

\* scrape_image: try/except returns None
scrape_image(b) ==
    IF Outcome(b, "image") = "ok"
    THEN [raised |-> FALSE, value |-> <<"src">>]
    ELSE [raised |-> FALSE, value |-> None]

\* scrape_price: no try/except; absent element gives "0 KWD"
scrape_price(b) ==
    CASE Outcome(b, "price") = "error"   -> [raised |-> TRUE]
      [] Outcome(b, "price") = "missing" -> [raised |-> FALSE, value |-> <<"0 KWD">>]
      [] OTHER                           -> [raised |-> FALSE, value |-> <<"price">>]

\* scrape_address: no try/except; absent element gives "Not Mentioned"
scrape_address(b) ==
    CASE Outcome(b, "address") = "error"   -> [raised |-> TRUE]
      [] Outcome(b, "address") = "missing" -> [raised |-> FALSE, value |-> <<"Not Mentioned">>]
      [] OTHER                             -> [raised |-> FALSE, value |-> <<"address">>]

\* scrape_additionalDetails_list: no try/except; no elements gives []
scrape_additionalDetails_list(b) ==
    CASE Outcome(b, "additional_details") = "error"   -> [raised |-> TRUE]
      [] Outcome(b, "additional_details") = "missing" -> [raised |-> FALSE, value |-> <<>>]
      [] OTHER                                        -> [raised |-> FALSE, value |-> <<"attr">>]

\* scrape_specifications: no try/except; no elements gives {}
scrape_specifications(b) ==
    CASE Outcome(b, "specifications") = "error"   -> [raised |-> TRUE]
      [] Outcome(b, "specifications") = "missing" -> [raised |-> FALSE, value |-> EmptyDict]
      [] OTHER                                    -> [raised |-> FALSE, value |-> [alt |-> <<"val">>]]

\* scrape_views_no: try/except returns None
scrape_views_no(b) ==
    IF Outcome(b, "views_no") = "ok"
    THEN [raised |-> FALSE, value |-> <<"views">>]
    ELSE [raised |-> FALSE, value |-> None]

\* scrape_submitter_details: no try/except; no info wrapper gives {}
scrape_submitter_details(b) ==
    CASE Outcome(b, "submitter") = "error"   -> [raised |-> TRUE]
      [] Outcome(b, "submitter") = "missing" -> [raised |-> FALSE, value |-> EmptyDict]
      [] OTHER                               ->
           [raised |-> FALSE,
            value  |-> [submitter |-> <<"name">>, ads |-> <<"0 ads">>,
                        membership |-> <<"membership year not mentioned">>]]

\* scrape_phone_number: try/except, falls through to None
scrape_phone_number(b) ==
    IF Outcome(b, "phone") = "ok"
    THEN [raised |-> FALSE, value |-> <<"phone">>]
    ELSE [raised |-> FALSE, value |-> None]

\* scrape_relative_date: try/except returns None
scrape_relative_date(b) ==
    IF Outcome(b, "relative_date") = "ok"
    THEN [raised |-> FALSE, value |-> <<"relative">>]
    ELSE [raised |-> FALSE, value |-> None]

\* line 277 inside the detail page machine: the phrase is opaque here; the
\* normalizer itself is modelled character by character further below
published_of(relative) == IF relative # None THEN <<"published">> ELSE None

\* The try block of scrape_more_details (lines 261-295): the first call that
\* raises ends the attempt, otherwise the record is returned.
TryDetail(b) ==
    IF \/ ~b.nav
       \/ scrape_id(b).raised
       \/ scrape_description(b).raised
       \/ scrape_image(b).raised
       \/ scrape_price(b).raised
       \/ scrape_address(b).raised
       \/ scrape_additionalDetails_list(b).raised
       \/ scrape_specifications(b).raised
       \/ scrape_views_no(b).raised
       \/ scrape_submitter_details(b).raised
       \/ scrape_phone_number(b).raised
       \/ scrape_relative_date(b).raised
    THEN [raised |-> TRUE]
    ELSE [raised |-> FALSE,
          value  |-> [id                 |-> scrape_id(b).value,
                      description        |-> scrape_description(b).value,
                      image              |-> scrape_image(b).value,
                      price              |-> scrape_price(b).value,
                      address            |-> scrape_address(b).value,
                      additional_details |-> scrape_additionalDetails_list(b).value,
                      specifications     |-> scrape_specifications(b).value,
                      views_no           |-> scrape_views_no(b).value,
                      submitter          |-> Get(scrape_submitter_details(b).value, "submitter"),
                      ads                |-> Get(scrape_submitter_details(b).value, "ads"),
                      membership         |-> Get(scrape_submitter_details(b).value, "membership"),
                      phone              |-> scrape_phone_number(b).value,
                      relative_date      |-> scrape_relative_date(b).value,
                      date_published     |-> published_of(scrape_relative_date(b).value)]]

\* The except branch with the last failure propagated instead of swallowed
DetailOutcomeReraise(r, dAttempt) ==
    IF ~r.raised THEN [kind |-> "return", value |-> r.value]
    ELSE IF dAttempt + 1 = DetailRetries
         THEN [kind |-> "raise", value |-> EmptyDict]
         ELSE [kind |-> "retry", value |-> EmptyDict]

\* What the loop of scrape_more_details does with the result r of attempt
\* number dAttempt (0-based): return the record, go round again, or return {}
DetailOutcome(r, dAttempt) ==
    IF ~r.raised THEN [kind |-> "return", value |-> r.value]
    ELSE IF dAttempt + 1 = DetailRetries
         THEN [kind |-> "return", value |-> EmptyDict]
         ELSE [kind |-> "retry", value |-> EmptyDict]

\* scrape_pinned_today: the page marks its first card as pinned
scrape_pinned_today(card) == IF card = 1 THEN <<"Pinned today">> ELSE <<"Not Pinned">>

\* The dict appended at DetailsScraper.py:46-65
MakeCard(link, pinned, ctype, title, d) ==
    [id                 |-> Get(d, "id"),
     date_published     |-> Get(d, "date_published"),
     relative_date      |-> Get(d, "relative_date"),
     pin                |-> pinned,
     type               |-> ctype,
     title              |-> title,
     description        |-> Get(d, "description"),
     link               |-> link,
     image              |-> Get(d, "image"),
     price              |-> Get(d, "price"),
     address            |-> Get(d, "address"),
     additional_details |-> Get(d, "additional_details"),
     specifications     |-> Get(d, "specifications"),
     views_no           |-> Get(d, "views_no"),
     submitter          |-> Get(d, "submitter"),
     ads                |-> Get(d, "ads"),
     membership         |-> Get(d, "membership"),
     phone              |-> Get(d, "phone")]

\* the keys of a card that come from scrape_more_details
DetailKeys ==
    {"id", "date_published", "relative_date", "description", "image", "price",
     "address", "additional_details", "specifications", "views_no",
     "submitter", "ads", "membership", "phone"}

(***************************************************************************)
(* Text: str values the code scans are sequences of one-character strings  *)
(***************************************************************************)
Digits == <<"0", "1", "2", "3", "4", "5", "6", "7", "8", "9">>

IsDigit(c) == \E i \in 1..10 : Digits[i] = c

DigitValue(c) == (CHOOSE i \in 1..10 : Digits[i] = c) - 1

\* \s of the pattern and the separator of str.split()
IsSpace(c) == c \in {" ", "TAB"}

Upper == <<"A", "C", "D", "E", "H", "I", "M", "N", "O", "R", "S", "T", "U", "Y">>
Lower == <<"a", "c", "d", "e", "h", "i", "m", "n", "o", "r", "s", "t", "u", "y">>

\* str.lower() of one character (the letters the unit words are made of)
LowerChar(c) ==
    IF \E i \in 1..Len(Upper) : Upper[i] = c
    THEN Lower[CHOOSE i \in 1..Len(Upper) : Upper[i] = c]
    ELSE c

\* int(): the value of a run of decimal digits
RECURSIVE int(_)
int(ds) ==
    IF ds = <<>> THEN 0
    ELSE 10 * int(SubSeq(ds, 1, Len(ds) - 1)) + DigitValue(ds[Len(ds)])

\* the decimal digits of n, at least `width` of them (%d, %02d, %04d)
RECURSIVE ZeroPad(_, _)
ZeroPad(n, width) ==
    IF n < 10 /\ width <= 1 THEN <<Digits[n + 1]>>
    ELSE ZeroPad(n \div 10, width - 1) \o <<Digits[(n % 10) + 1]>>

(***************************************************************************)
(* scrape_publish_date: the pattern                                        *)
(***************************************************************************)
\* the alternatives of relative_time_pattern, lower-cased, in pattern order:
\* Second|Minute|Hour|Day|Month|shahr|thaniya|daqiqa|saa|yawm
UnitAlternatives ==
    << <<"s", "e", "c", "o", "n", "d">>,
       <<"m", "i", "n", "u", "t", "e">>,
       <<"h", "o", "u", "r">>,
       <<"d", "a", "y">>,
       <<"m", "o", "n", "t", "h">>,
       <<"AR_sheen", "AR_heh", "AR_reh">>,
       <<"AR_theh", "AR_alef", "AR_noon", "AR_yeh", "AR_teh_marbuta">>,
       <<"AR_dal", "AR_qaf", "AR_yeh", "AR_qaf", "AR_teh_marbuta">>,
       <<"AR_seen", "AR_alef", "AR_ain", "AR_teh_marbuta">>,
       <<"AR_yeh", "AR_waw", "AR_meem">> >>

\* the end of the longest run of digits (or of white space) that starts at i;
\* i - 1 when text[i] is not one
RECURSIVE RunEnd(_, _, _)
RunEnd(text, i, digit) ==
    IF i <= Len(text) /\ (IF digit THEN IsDigit(text[i]) ELSE IsSpace(text[i]))
    THEN RunEnd(text, i + 1, digit)
    ELSE i - 1

\* does alternative `word` match text at position k, ignoring case
WordAt(text, k, word) ==
    /\ k + Len(word) - 1 <= Len(text)
    /\ \A x \in 1..Len(word) : LowerChar(text[k + x - 1]) = word[x]

NoMatch == [found |-> FALSE, number |-> <<>>, unit |-> <<>>]

\* a variant of the pattern that lets the unit follow the digits directly
MatchAtNoSpace(text, i) ==
    LET j == RunEnd(text, i, TRUE)
        k == RunEnd(text, j + 1, FALSE)
        alts == {a \in 1..Len(UnitAlternatives) : WordAt(text, k + 1, UnitAlternatives[a])}
    IN  IF j < i \/ alts = {} THEN NoMatch
        ELSE LET a == CHOOSE a \in alts : \A o \in alts : a <= o
             IN  [found |-> TRUE, number |-> SubSeq(text, i, j),
                  unit |-> SubSeq(text, k + 1, k + Len(UnitAlternatives[a]))]

\* (\d+)\s+(alternatives) anchored at position i: the digit run, the white
\* space run, then the first alternative that matches
MatchAt(text, i) ==
    LET j == RunEnd(text, i, TRUE)
        k == RunEnd(text, j + 1, FALSE)
        alts == {a \in 1..Len(UnitAlternatives) : WordAt(text, k + 1, UnitAlternatives[a])}
    IN  IF j < i \/ k < j + 1 \/ alts = {} THEN NoMatch
        ELSE LET a == CHOOSE a \in alts : \A o \in alts : a <= o
             IN  [found |-> TRUE, number |-> SubSeq(text, i, j),
                  unit |-> SubSeq(text, k + 1, k + Len(UnitAlternatives[a]))]

\* re.search(relative_time_pattern, relative_time, re.IGNORECASE): the match
\* at the leftmost position that has one
RECURSIVE re_search_from(_, _)
re_search_from(text, i) ==
    IF i > Len(text) THEN NoMatch
    ELSE IF MatchAt(text, i).found THEN MatchAt(text, i)
    ELSE re_search_from(text, i + 1)

re_search(text) == re_search_from(text, 1)

\* match.group(2).lower()
lower(word) == [x \in 1..Len(word) |-> LowerChar(word[x])]

(***************************************************************************)
(* datetime, timedelta, relativedelta                                      *)
(***************************************************************************)
IsLeap(y) == y % 4 = 0 /\ (y % 100 # 0 \/ y % 400 = 0)

DaysInMonthTable == <<31, 28, 31, 30, 31, 30, 31, 31, 30, 31, 30, 31>>

\* calendar.monthrange(year, month)[1]
DaysInMonth(y, m) == IF m = 2 /\ IsLeap(y) THEN 29 ELSE DaysInMonthTable[m]

RECURSIVE DaysBeforeMonth(_, _)
DaysBeforeMonth(y, m) ==
    IF m = 1 THEN 0 ELSE DaysBeforeMonth(y, m - 1) + DaysInMonth(y, m - 1)

DaysBeforeYear(y) ==
    (y - 1) * 365 + (y - 1) \div 4 - (y - 1) \div 100 + (y - 1) \div 400

\* date.toordinal()
toordinal(dt) ==
    DaysBeforeYear(dt.year) + DaysBeforeMonth(dt.year, dt.month) + dt.day

\* date.fromordinal(n): the 400/100/4/1-year cycle decomposition
fromordinal(ord) ==
    LET n0   == ord - 1
        n400 == n0 \div 146097
        r400 == n0 % 146097
        n100 == r400 \div 36524
        r100 == r400 % 36524
        n4   == r100 \div 1461
        r4   == r100 % 1461
        n1   == r4 \div 365
        n    == r4 % 365
        year == n400 * 400 + 1 + n100 * 100 + n4 * 4 + n1
    IN  IF n1 = 4 \/ n100 = 4
        THEN [year |-> year - 1, month |-> 12, day |-> 31]
        ELSE LET month == CHOOSE m \in 1..12 :
                              /\ DaysBeforeMonth(year, m) <= n
                              /\ n < DaysBeforeMonth(year, m) + DaysInMonth(year, m)
             IN  [year |-> year, month |-> month,
                  day |-> n - DaysBeforeMonth(year, month) + 1]

\* timedelta(days=, seconds=, minutes=, hours=), normalised as Python keeps it
timedelta(days, seconds, minutes, hours) ==
    LET total == seconds + 60 * (minutes % 1440) + 3600 * (hours % 24)
    IN  [days    |-> days + minutes \div 1440 + hours \div 24 + total \div 86400,
         seconds |-> total % 86400]

\* datetime - timedelta
SubTimedelta(dt, td) ==
    LET secs  == dt.hour * 3600 + dt.minute * 60 + dt.second - td.seconds
        ord   == toordinal(dt) - td.days + (secs \div 86400)
        rem   == secs % 86400
        date  == fromordinal(ord)
    IN  [year |-> date.year, month |-> date.month, day |-> date.day,
         hour |-> rem \div 3600, minute |-> (rem % 3600) \div 60, second |-> rem % 60]

\* a month taken as thirty days
SubMonthsThirtyDays(dt, number) == SubTimedelta(dt, timedelta(30 * number, 0, 0, 0))

\* datetime - relativedelta(months=number): whole years are split off, the
\* month is shifted and wrapped, the day is clamped to the target month
SubMonths(dt, number) ==
    LET years  == number \div 12
        months == number % 12
        m0     == dt.month - months
        year   == IF m0 < 1 THEN dt.year - years - 1 ELSE dt.year - years
        month  == IF m0 < 1 THEN m0 + 12 ELSE m0
        dim    == DaysInMonth(year, month)
    IN  [dt EXCEPT !.year = year, !.month = month,
                   !.day = IF dt.day < dim THEN dt.day ELSE dim]

\* strftime("%Y-%m-%d")
strftime_date(dt) ==
    ZeroPad(dt.year, 4) \o <<"-">> \o ZeroPad(dt.month, 2) \o <<"-">> \o ZeroPad(dt.day, 2)

\* strftime("%Y-%m-%d %H:%M:%S")
strftime(dt) ==
    strftime_date(dt) \o <<" ">> \o ZeroPad(dt.hour, 2) \o <<":">>
        \o ZeroPad(dt.minute, 2) \o <<":">> \o ZeroPad(dt.second, 2)

InvalidRelativeTime ==
    <<"I", "n", "v", "a", "l", "i", "d", " ", "R", "e", "l", "a", "t", "i", "v", "e",
      " ", "T", "i", "m", "e">>

UnsupportedUnit ==
    <<"U", "n", "s", "u", "p", "p", "o", "r", "t", "e", "d", " ", "t", "i", "m", "e",
      " ", "u", "n", "i", "t", " ", "f", "o", "u", "n", "d", ".">>

\* scrape_publish_date(relative_time) with datetime.now() = current_time
scrape_publish_date(relative_time, current_time) ==
    LET match == re_search(relative_time)
    IN  IF ~match.found THEN InvalidRelativeTime
        ELSE LET number == int(match.number)
                 unit   == lower(match.unit)
             IN  CASE unit \in {UnitAlternatives[1], UnitAlternatives[7]} ->
                        strftime(SubTimedelta(current_time, timedelta(0, number, 0, 0)))
                   [] unit \in {UnitAlternatives[2], UnitAlternatives[8]} ->
                        strftime(SubTimedelta(current_time, timedelta(0, 0, number, 0)))
                   [] unit \in {UnitAlternatives[3], UnitAlternatives[9]} ->
                        strftime(SubTimedelta(current_time, timedelta(0, 0, 0, number)))
                   [] unit \in {UnitAlternatives[4], UnitAlternatives[10]} ->
                        strftime(SubTimedelta(current_time, timedelta(number, 0, 0, 0)))
                   [] unit \in {UnitAlternatives[5], UnitAlternatives[6]} ->
                        strftime(SubMonths(current_time, number))
                   [] OTHER -> UnsupportedUnit

\* DetailsScraper.py:277
publish_or_none(relative, current_time) ==
    IF relative # None /\ relative # <<>>
    THEN scrape_publish_date(relative, current_time)
    ELSE None

(***************************************************************************)
(* The date-window filter                                                  *)
(***************************************************************************)
\* str.split()[0]: the first run of non-blank characters ("IndexError" when
\* there is none)
first_token(text) ==
    LET starts == {i \in 1..Len(text) : ~IsSpace(text[i])}
    IN  IF starts = {} THEN <<"IndexError">>
        ELSE LET i == CHOOSE i \in starts : \A o \in starts : i <= o
                 ends == {j \in i..Len(text) : j = Len(text) \/ IsSpace(text[j + 1])}
                 j == CHOOSE j \in ends : \A o \in ends : j <= o
             IN  SubSeq(text, i, j)

\* a filter that compares the whole value with the target
is_yesterday_whole(card, yesterday) ==
    /\ card.date_published # None
    /\ card.date_published # <<>>
    /\ card.date_published = yesterday

\* card.get("date_published") and card["date_published"].split()[0] == yesterday
is_yesterday(card, yesterday) ==
    /\ card.date_published # None
    /\ card.date_published # <<>>
    /\ first_token(card.date_published) = yesterday

\* a filter that loses the first qualifying card
filter_yesterday_rest(cars, yesterday) ==
    LET kept == SelectSeq(cars, LAMBDA car : is_yesterday(car, yesterday))
    IN  IF kept = <<>> THEN <<>> ELSE Tail(kept)

\* the loop of normal_code_main.py:53-56 and the comprehension of
\* hierarchial_code_main.py:169-172: qualifying cards, appended in order
RECURSIVE filter_yesterday(_, _)
filter_yesterday(cars, yesterday) ==
    IF cars = <<>> THEN <<>>
    ELSE LET rest == filter_yesterday(SubSeq(cars, 1, Len(cars) - 1), yesterday)
             car  == cars[Len(cars)]
         IN  IF is_yesterday(car, yesterday) THEN Append(rest, car) ELSE rest

(***************************************************************************)
(* State                                                                   *)
(***************************************************************************)
\* DetailsScraping.get_card_details
VARIABLES
    retries,      \* self.retries
    card_cards,   \* number of listing cards the page shows
    attempt,      \* loop variable of the page-level retry loop (0-based)
    cards,        \* the result list (line 28)
    cardIdx,      \* position of `for card in card_cards`
    summary,      \* link, pin, type, title of the card being processed
    dAttempt,     \* loop variable of scrape_more_details (0-based)
    pc,           \* "goto", "cards", "detail", "done"
    lastTry,      \* history: behaviour and result of the latest detail attempt
    lastResolve,  \* history: how the latest scrape_more_details call ended
    lastExc       \* history: what raised into the page-level except last

detailVars ==
    <<retries, card_cards, attempt, cards, cardIdx, summary, dAttempt, pc,
      lastTry, lastResolve, lastExc>>

\* the normalizer and the filter applied to drawn inputs
VARIABLES
    phrase,          \* the phrase the normalizer is applied to, with its label
    current_time,    \* datetime.now() inside scrape_publish_date
    date_published,  \* `published` of DetailsScraper.py:277
    cars,            \* the records handed to the filter
    yesterday,       \* the target date string
    card_data,       \* the filter's output
    filtered         \* the filter has run on `cars`

pureVars == <<phrase, current_time, date_published, cars, yesterday, card_data, filtered>>

\* ElectronicsMainScraper
VARIABLES
    electronics_data,      \* number of categories; category c is the c-th item
    page_count,            \* pages of every category's URL template
    malformed,             \* categories whose url_template.format(page) raises
    chunk_size,            \* self.chunk_size
    max_concurrent_links,  \* self.max_concurrent_links
    sem_value,             \* semaphore._value
    sem_waiters,           \* semaphore._waiters, oldest first
    sem_woken,             \* waiters whose future has been given its result
    task,                  \* per category: where its scrape_electronic task is
    page,                  \* per category: loop variable `page`
    found,                 \* per category: card_data is not empty
    sawEmpty,              \* history, of a page loop that is running: a page
                           \* of the template came back without cards
    mpc,                   \* where scrape_all_electronics is
    chunk_index,           \* chunk_index (1-based)
    pos,                   \* position in the chunk of the creation / await loop
    pending_uploads,       \* categories whose Excel file awaits upload
    local_files,           \* categories whose Excel file is on disk
    uploaded,              \* categories whose file reached the Drive folder
    upload_calls,          \* history: chunk index of each upload_files_with_retry call
    exported,              \* history: chunks that produced at least one file
    delayed,               \* history: chunks after which chunk_delay elapsed
    awaited,               \* history, of this chunk: categories whose `await task` is over
    save_failed,           \* history, of this chunk: save_to_excel returned None on an error
    handed                 \* history, of this chunk: files passed to upload_files_with_retry

schedVars ==
    <<electronics_data, page_count, malformed, chunk_size, max_concurrent_links,
      sem_value, sem_waiters, sem_woken, task, page, found, sawEmpty, mpc,
      chunk_index, pos, pending_uploads, local_files, uploaded, upload_calls,
      exported, delayed, awaited, save_failed, handed>>

mainVars ==
    <<mpc, chunk_index, pos, pending_uploads, local_files, uploaded, upload_calls,
      exported, delayed, awaited, save_failed, handed>>
configVars ==
    <<electronics_data, page_count, malformed, chunk_size, max_concurrent_links>>
semVars == <<sem_value, sem_waiters, sem_woken>>
awaitHistory == <<awaited, save_failed>>

\* HierarchialMainScraper and process_all
VARIABLES
    n_configs,       \* len(configs)
    config_index,    \* how many configs process_all has taken from `configs`
    config,          \* the config of the current scraper, with num_pages
    scraper,         \* self: num_pages, specific_brands, specific_pages
    brand_elements,  \* the anchors found on the category page
    element_index,   \* position of `element` in brand_elements
    page_num,        \* loop variable page_num
    brand_data,      \* brand_data of the current brand
    data,            \* self.data, and the brand_data process_... receives
    requests,        \* history: (element, page_num) of every get_card_details call
    hpc,             \* where process_all / the current scraper is
    clock,           \* midnights passed since the run began
    folder_name,     \* `yesterday` of process_hierarchial_electronics (line 215)
    filter_date,     \* `yesterday` of save_to_excel (line 158)
    excel_file,      \* what save_to_excel returned
    sheets,          \* the sheets of the writer, in creation order
    disk,            \* categories whose .xlsx file exists locally
    drive_folders,   \* names of the folders created under the parent folder
    drive_files,     \* files uploaded: category, folder, target date of its rows
    auth_failed      \* history: positions in `configs` whose authenticate() raised

hierVars ==
    <<n_configs, config_index, config, scraper, brand_elements, element_index,
      page_num, brand_data, data, requests, hpc, clock, folder_name, filter_date,
      excel_file, sheets, disk, drive_folders, drive_files, auth_failed>>

pagerVars == <<brand_elements, element_index, page_num, brand_data, requests>>
exportVars == <<filter_date, excel_file, sheets, disk, drive_files>>

\* One call of a Drive operation
VARIABLES
    sink_call,       \* the method called, or the upload loop for one file
    file_present,    \* os.path.exists(file_name)
    sink_attempt,    \* attempts of the operation made so far
    sink_raised,     \* history: the class of the exception of each failed attempt
    sink_pc          \* where the call is

sinkVars == <<sink_call, file_present, sink_attempt, sink_raised, sink_pc>>

\* The dated folder under the parent folder, over the chunks of one run
VARIABLES
    parent_folder,   \* names of the folders under parent_folder_id, oldest first
    folder_id,       \* the id upload_files_with_retry holds: a position in
                     \* parent_folder, 0 for None
    uploads,         \* calls of upload_files_with_retry made so far
    midnights,       \* midnights passed since the run began
    created,         \* history: create_folder calls, with what existed then
    fpc              \* where the current call is

folderVars == <<parent_folder, folder_id, uploads, midnights, created, fpc>>

vars == <<detailVars, pureVars, schedVars, hierVars, sinkVars, folderVars>>

\* what each part of the model leaves alone
notDetail == <<pureVars, schedVars, hierVars, sinkVars, folderVars>>
notPure == <<detailVars, schedVars, hierVars, sinkVars, folderVars>>
notSched == <<detailVars, pureVars, hierVars, sinkVars, folderVars>>
notHier == <<detailVars, pureVars, schedVars, sinkVars, folderVars>>
notSink == <<detailVars, pureVars, schedVars, hierVars, folderVars>>
notFolder == <<detailVars, pureVars, schedVars, hierVars, sinkVars>>

(***************************************************************************)
(* DetailsScraping.get_card_details                                        *)
(***************************************************************************)
NoSummary == [link |-> 0, pin |-> None, type |-> None, title |-> None]
NoTry == [b |-> [nav |-> FALSE, field |-> "none", how |-> "ok"], raised |-> FALSE, seen |-> FALSE]
NoResolve ==
    [link |-> 0, tries |-> 0, value |-> EmptyDict, raised |-> FALSE, served |-> FALSE]

DetailInit ==
    /\ retries \in 1..MaxRetries
    /\ card_cards \in 0..MaxCards
    /\ attempt = 0
    /\ cards = <<>>
    /\ cardIdx = 0
    /\ summary = NoSummary
    /\ dAttempt = 0
    /\ pc = "goto"
    /\ lastTry = NoTry
    /\ lastResolve = NoResolve
    /\ lastExc = "none"

\* except + finally of the page-level loop (lines 67-75): the last attempt
\* breaks, any other closes the page, opens a new one and goes round again.
\* `cards` is left as it is.
AttemptFailed(why) ==
    /\ lastExc' = why
    /\ IF attempt + 1 = retries
       THEN pc' = "done" /\ attempt' = attempt
       ELSE pc' = "goto" /\ attempt' = attempt + 1
    /\ cardIdx' = 0
    /\ summary' = NoSummary
    /\ dAttempt' = 0
    /\ UNCHANGED <<retries, card_cards, cards>>

\* page.goto / wait_for_selector raise (navigation error, or no card appears
\* before the selector wait times out)
GotoFails ==
    /\ UNCHANGED notDetail
    /\ pc = "goto"
    /\ AttemptFailed("goto")
    /\ UNCHANGED <<lastTry, lastResolve>>

\* lines 33-36: the page loads and shows its cards
GotoLoads ==
    /\ UNCHANGED notDetail
    /\ pc = "goto"
    /\ card_cards > 0
    /\ pc' = "cards"
    /\ cardIdx' = 1
    /\ UNCHANGED <<retries, card_cards, attempt, cards, summary, dAttempt,
                   lastTry, lastResolve, lastExc>>

\* lines 38-41: one of the card's DOM reads raises
SummaryFails ==
    /\ UNCHANGED notDetail
    /\ pc = "cards"
    /\ AttemptFailed("summary")
    /\ UNCHANGED <<lastTry, lastResolve>>

\* lines 38-41: link, type, title and pin of the card are read
SummaryRead ==
    /\ UNCHANGED notDetail
    /\ pc = "cards"
    /\ summary' = [link |-> cardIdx, pin |-> scrape_pinned_today(cardIdx),
                   type |-> <<"type">>, title |-> <<"title">>]
    /\ pc' = "detail"
    /\ dAttempt' = 0
    /\ UNCHANGED <<retries, card_cards, attempt, cards, cardIdx,
                   lastTry, lastResolve, lastExc>>

\* line 44, one attempt of scrape_more_details, and lines 46-66 when it returns
DetailAttempt ==
    /\ UNCHANGED notDetail
    /\ pc = "detail"
    /\ \E b \in SourceBehaviours :
         LET r == TryDetail(b)
             o == DetailOutcome(r, dAttempt)
         IN  /\ lastTry' = [b |-> b, raised |-> r.raised, seen |-> TRUE]
             /\ CASE o.kind = "retry" ->
                       /\ dAttempt' = dAttempt + 1
                       /\ UNCHANGED <<retries, card_cards, attempt, cards, cardIdx,
                                      summary, pc, lastResolve, lastExc>>
                  [] o.kind = "raise" ->
                       /\ AttemptFailed("detail")
                       /\ UNCHANGED lastResolve
                  [] OTHER ->
                       /\ cards' = Append(cards,
                                      MakeCard(summary.link, summary.pin, summary.type,
                                               summary.title, o.value))
                       /\ lastResolve' = [link |-> summary.link, tries |-> dAttempt + 1,
                                          value |-> o.value, raised |-> r.raised,
                                          served |-> (b = AllOk)]
                       /\ dAttempt' = 0
                       /\ summary' = NoSummary
                       /\ IF cardIdx = card_cards
                          THEN pc' = "done" /\ cardIdx' = 0
                          ELSE pc' = "cards" /\ cardIdx' = cardIdx + 1
                       /\ UNCHANGED <<retries, card_cards, attempt, lastExc>>

DetailNext ==
    \/ GotoFails
    \/ GotoLoads
    \/ SummaryFails
    \/ SummaryRead
    \/ DetailAttempt

\* the detail page machine at rest, for the specifications that do not run it
DetailIdle ==
    /\ retries = 0
    /\ card_cards = 0
    /\ attempt = 0
    /\ cards = <<>>
    /\ cardIdx = 0
    /\ summary = NoSummary
    /\ dAttempt = 0
    /\ pc = "done"
    /\ lastTry = NoTry
    /\ lastResolve = NoResolve
    /\ lastExc = "none"

(***************************************************************************)
(* The normalizer and the date-window filter applied to drawn inputs       *)
(***************************************************************************)
\* largest magnitude written in a relative-time phrase
MaxN == 13
\* records in the list handed to the filter
MaxRecords == 3

\* capture instants (datetime.now())
Instants ==
    {[year |-> 2024, month |-> 3,  day |-> 31, hour |-> 0,  minute |-> 0,  second |-> 30],
     [year |-> 2025, month |-> 1,  day |-> 1,  hour |-> 0,  minute |-> 0,  second |-> 0],
     [year |-> 2023, month |-> 12, day |-> 31, hour |-> 23, minute |-> 59, second |-> 59],
     [year |-> 2025, month |-> 3,  day |-> 30, hour |-> 12, minute |-> 30, second |-> 0]}

\* unit words as the site or a test may write them, with the unit they name
\* ("none": not one of the supported unit tokens)
UnitWords ==
    {[word |-> <<"s", "e", "c", "o", "n", "d">>, unit |-> "second"],
     [word |-> <<"M", "i", "n", "u", "t", "e">>, unit |-> "minute"],
     [word |-> <<"H", "O", "U", "R">>, unit |-> "hour"],
     [word |-> <<"D", "a", "y">>, unit |-> "day"],
     [word |-> <<"m", "o", "n", "t", "h">>, unit |-> "month"],
     [word |-> <<"M", "O", "N", "T", "H">>, unit |-> "month"],
     [word |-> <<"AR_sheen", "AR_heh", "AR_reh">>, unit |-> "month"],
     [word |-> <<"AR_theh", "AR_alef", "AR_noon", "AR_yeh", "AR_teh_marbuta">>, unit |-> "second"],
     [word |-> <<"AR_dal", "AR_qaf", "AR_yeh", "AR_qaf", "AR_teh_marbuta">>, unit |-> "minute"],
     [word |-> <<"AR_seen", "AR_alef", "AR_ain", "AR_teh_marbuta">>, unit |-> "hour"],
     [word |-> <<"AR_yeh", "AR_waw", "AR_meem">>, unit |-> "day"],
     [word |-> <<"AR_seen", "AR_alef", "AR_ain", "AR_alef", "AR_teh">>, unit |-> "none"],
     [word |-> <<"w", "e", "e", "k">>, unit |-> "none"],
     [word |-> <<"y", "r">>, unit |-> "none"]}

Prefixes == {<<>>, <<"AR_meem", "AR_noon", "AR_thal", " ">>}
Separators == {<<>>, <<" ">>, <<" ", "TAB">>}
Suffixes == {<<>>, <<"s", " ", "a", "g", "o">>}

\* phrases of the shape prefix, magnitude, separator, unit word, suffix; the
\* label says what the phrase was built from
BuiltPhrases ==
    {[text |-> pre \o ZeroPad(n, 1) \o sep \o w.word \o suf,
      n |-> n, unit |-> IF sep = <<>> THEN "none" ELSE w.unit] :
        pre \in Prefixes, n \in 0..MaxN, sep \in Separators, w \in UnitWords,
        suf \in Suffixes}

\* phrases of other shapes
OtherPhrases ==
    {[text |-> <<"f", "o", "o", " ", "b", "a", "r">>, n |-> 0, unit |-> "none"],
     [text |-> <<"1", "2">>, n |-> 0, unit |-> "none"],
     [text |-> <<"h", "o", "u", "r", " ", "3">>, n |-> 0, unit |-> "none"],
     [text |-> <<" ">>, n |-> 0, unit |-> "none"],
     [text |-> <<>>, n |-> 0, unit |-> "none"],
     [text |-> <<"7", " ", "2", " ", "d", "a", "y">>, n |-> 2, unit |-> "day"],
     [text |-> <<"0", "3", " ", "h", "o", "u", "r">>, n |-> 3, unit |-> "hour"]}

Phrases == BuiltPhrases \cup OtherPhrases

NoPhrase == [text |-> None, n |-> 0, unit |-> "none"]

\* the phrases and instants the records handed to the filter are made from
RecordPhrases ==
    {<<"2", "0", " ", "h", "o", "u", "r">>,
     <<"1", " ", "D", "a", "y">>,
     <<"2", " ", "AR_yeh", "AR_waw", "AR_meem">>,
     <<"5", "h", "o", "u", "r", "s">>,
     <<"f", "o", "o", " ", "b", "a", "r">>,
     None}

RecordInstants ==
    {[year |-> 2025, month |-> 1, day |-> 1, hour |-> 0,  minute |-> 0,  second |-> 0],
     [year |-> 2025, month |-> 1, day |-> 2, hour |-> 3, minute |-> 0, second |-> 0]}

Midnight == [year |-> 2025, month |-> 1, day |-> 1, hour |-> 0, minute |-> 0, second |-> 0]

PureInit ==
    /\ phrase = NoPhrase
    /\ current_time = Midnight
    /\ date_published = None
    /\ cars = <<>>
    /\ yesterday = <<>>
    /\ card_data = <<>>
    /\ filtered = FALSE

PureIdle == PureInit

\* scrape_relative_date returned phrase.text; line 277 runs at instant now
Normalize ==
    /\ UNCHANGED notPure
    /\ phrase = NoPhrase
    /\ cars = <<>>
    /\ ~filtered
    /\ \E ph \in Phrases \cup {NoPhrase}, now \in Instants :
          /\ phrase' = ph
          /\ current_time' = now
          /\ date_published' = publish_or_none(ph.text, now)
    /\ UNCHANGED <<cars, yesterday, card_data, filtered>>

\* a record resolved at instant now joins the list that will be filtered
Collect ==
    /\ UNCHANGED notPure
    /\ ~filtered
    /\ Len(cars) < MaxRecords
    /\ \E text \in RecordPhrases, now \in RecordInstants :
          cars' = Append(cars, [link |-> Len(cars) + 1, relative_date |-> text,
                                date_published |-> publish_or_none(text, now)])
    /\ phrase' = NoPhrase
    /\ current_time' = Midnight
    /\ date_published' = None
    /\ UNCHANGED <<yesterday, card_data, filtered>>

\* yesterday = (datetime.now() - timedelta(days=1)).strftime("%Y-%m-%d"), then
\* the filter over the records
Filter ==
    /\ UNCHANGED notPure
    /\ \E now \in RecordInstants :
          /\ yesterday' = strftime_date(SubTimedelta(now, timedelta(1, 0, 0, 0)))
          /\ card_data' = filter_yesterday(cars, yesterday')
    /\ filtered' = TRUE
    /\ phrase' = NoPhrase
    /\ current_time' = Midnight
    /\ date_published' = None
    /\ UNCHANGED cars

PureNext == Normalize \/ Collect \/ Filter

(***************************************************************************)
(* ElectronicsMainScraper: scrape_all_electronics and scrape_electronic    *)
(*                                                                         *)
(* One action is one run of a coroutine from an await to the next.         *)
(* get_card_details is represented by what it hands back to                *)
(* scrape_electronic: it raises, or returns no card ("empty"), cards none   *)
(* of which is dated yesterday ("none"), or cards one of which is ("some"). *)
(* "some" needs a record with a publish date, which scrape_more_details    *)
(* produces only once the call at DetailsScraper.py:267 resolves.          *)
(***************************************************************************)
\* categories in electronics_data
MaxCats == 3
\* largest chunk_size explored
MaxChunk == 3
\* largest max_concurrent_links explored
MaxPermits == 2
\* largest page count of a URL template
MaxPages == 2

Categories == 1..electronics_data

\* slices that are cut only where a whole chunk_size fits
electronics_chunks_whole ==
    [k \in 1..(electronics_data \div chunk_size) |->
        [x \in 1..chunk_size |-> (k - 1) * chunk_size + x]]

\* lines 152-155: the slices [i : i + chunk_size] for i in range(0, n, chunk_size)
electronics_chunks ==
    LET starts == {i \in 0..(electronics_data - 1) : i % chunk_size = 0}
        n == Cardinality(starts)
    IN  [k \in 1..n |->
            LET i == (k - 1) * chunk_size
                hi == IF i + chunk_size < electronics_data
                      THEN i + chunk_size ELSE electronics_data
            IN  [x \in 1..(hi - i) |-> i + x]]

chunk == electronics_chunks[chunk_index]

\* one browser kept for every call
launch_once(c, n) == <<"browser", 0, 0>>

\* DetailsScraper.py:20-22, entered from normal_code_main.py:50-52: the
\* browser and page that the get_card_details call for page n of category c
\* launches for itself inside its own `async with async_playwright()`
launch(c, n) == <<"browser", c, n>>

\* a semaphore that never refuses
NeverLocked(value, waiters) == FALSE

\* Semaphore.locked()
locked(value, waiters) == value = 0 \/ waiters # <<>>

\* a release that wakes no waiter
wake_up_nobody(value, waiters, woken) == [value |-> value, woken |-> woken]

\* Semaphore._wake_up_next(): the oldest waiter not yet woken takes a permit
wake_up_next(value, waiters, woken) ==
    LET sleeping == {i \in 1..Len(waiters) : waiters[i] \notin woken}
    IN  IF sleeping = {} THEN [value |-> value, woken |-> woken]
        ELSE LET i == CHOOSE i \in sleeping : \A o \in sleeping : i <= o
             IN  [value |-> value - 1, woken |-> woken \cup {waiters[i]}]

\* Semaphore.release()
release == wake_up_next(sem_value + 1, sem_waiters, sem_woken)

SchedInit ==
    /\ electronics_data \in 1..MaxCats
    /\ page_count \in 1..MaxPages
    /\ malformed \in {{}, {1}}
    /\ chunk_size \in 1..MaxChunk
    /\ max_concurrent_links \in 1..MaxPermits
    /\ sem_value = max_concurrent_links
    /\ sem_waiters = <<>>
    /\ sem_woken = {}
    /\ task = [c \in Categories |-> "absent"]
    /\ page = [c \in Categories |-> 0]
    /\ found = [c \in Categories |-> FALSE]
    /\ sawEmpty = [c \in Categories |-> FALSE]
    /\ mpc = "create"
    /\ chunk_index = 1
    /\ pos = 1
    /\ pending_uploads = <<>>
    /\ local_files = {}
    /\ uploaded = {}
    /\ upload_calls = <<>>
    /\ exported = {}
    /\ delayed = {}
    /\ awaited = {}
    /\ save_failed = {}
    /\ handed = {}

SchedIdle ==
    /\ electronics_data = 0
    /\ page_count = 0
    /\ malformed = {}
    /\ chunk_size = 0
    /\ max_concurrent_links = 0
    /\ sem_value = 0
    /\ sem_waiters = <<>>
    /\ sem_woken = {}
    /\ task = <<>>
    /\ page = <<>>
    /\ found = <<>>
    /\ sawEmpty = <<>>
    /\ mpc = "done"
    /\ chunk_index = 0
    /\ pos = 0
    /\ pending_uploads = <<>>
    /\ local_files = {}
    /\ uploaded = {}
    /\ upload_calls = <<>>
    /\ exported = {}
    /\ delayed = {}
    /\ awaited = {}
    /\ save_failed = {}
    /\ handed = {}

\* ------------------------------------------------------------------------
\* scrape_electronic (one task per category)

\* lines 42-46: the task starts and reaches `async with semaphore`
TaskStart(c) ==
    /\ UNCHANGED notSched
    /\ task[c] = "created"
    /\ IF locked(sem_value, sem_waiters)
       THEN /\ sem_waiters' = Append(sem_waiters, c)
            /\ task' = [task EXCEPT ![c] = "waiting"]
            /\ UNCHANGED <<sem_value, sem_woken, page>>
       ELSE /\ sem_value' = sem_value - 1
            /\ task' = [task EXCEPT ![c] = "fetch"]
            /\ page' = [page EXCEPT ![c] = 1]
            /\ UNCHANGED <<sem_waiters, sem_woken>>
    /\ UNCHANGED <<found, sawEmpty, mainVars, configVars>>

\* a woken waiter resumes inside Semaphore.acquire() and enters the block
TaskResume(c) ==
    /\ UNCHANGED notSched
    /\ task[c] = "waiting"
    /\ c \in sem_woken
    /\ LET waiters == SelectSeq(sem_waiters, LAMBDA w : w # c)
           woken   == sem_woken \ {c}
           next    == IF sem_value > 0
                      THEN wake_up_next(sem_value, waiters, woken)
                      ELSE [value |-> sem_value, woken |-> woken]
       IN  /\ sem_waiters' = waiters
           /\ sem_value' = next.value
           /\ sem_woken' = next.woken
    /\ task' = [task EXCEPT ![c] = "fetch"]
    /\ page' = [page EXCEPT ![c] = 1]
    /\ UNCHANGED <<found, sawEmpty, mainVars, configVars>>

\* a block that is left with the permit still taken
LeaveBlockHolding(c, state) ==
    /\ task' = [task EXCEPT ![c] = state]
    /\ UNCHANGED <<semVars, page>>

\* the end of the page loop: the block is left (permit released) and
\* card_data is returned
LeaveBlock(c, state) ==
    /\ task' = [task EXCEPT ![c] = state]
    /\ sem_value' = release.value
    /\ sem_woken' = release.woken
    /\ UNCHANGED <<sem_waiters, page>>

\* after page p of the template: the next page, or the end of the loop
NextPage(c) ==
    IF page[c] < page_count
    THEN /\ task' = [task EXCEPT ![c] = "fetch"]
         /\ page' = [page EXCEPT ![c] = page[c] + 1]
         /\ UNCHANGED semVars
    ELSE LeaveBlock(c, "done")

\* lines 49-52 and 58-60: get_card_details raises; the error is logged and
\* the loop continues with the next page
TaskFetchRaises(c) ==
    /\ UNCHANGED notSched
    /\ task[c] = "fetch"
    /\ c \notin malformed
    /\ NextPage(c)
    /\ sawEmpty' = IF task'[c] \in {"done", "failed"}
                   THEN [sawEmpty EXCEPT ![c] = FALSE] ELSE sawEmpty
    /\ UNCHANGED <<found, mainVars, configVars>>

\* lines 49-57: get_card_details returns; yesterday's cards are appended and
\* the task sleeps page_delay
TaskFetchReturns(c) ==
    /\ UNCHANGED notSched
    /\ task[c] = "fetch"
    /\ c \notin malformed
    /\ \E cards_back \in {"empty", "none", "some"} :
          /\ found' = [found EXCEPT ![c] = @ \/ cards_back = "some"]
          /\ sawEmpty' = [sawEmpty EXCEPT ![c] = @ \/ cards_back = "empty"]
    /\ task' = [task EXCEPT ![c] = "pause"]
    /\ UNCHANGED <<page, semVars, mainVars, configVars>>

\* line 57: page_delay has elapsed
TaskPauseElapsed(c) ==
    /\ UNCHANGED notSched
    /\ task[c] = "pause"
    /\ NextPage(c)
    /\ sawEmpty' = IF task'[c] \in {"done", "failed"}
                   THEN [sawEmpty EXCEPT ![c] = FALSE] ELSE sawEmpty
    /\ UNCHANGED <<found, mainVars, configVars>>

\* line 49: url_template.format(page) raises outside the try; the exception
\* leaves the block and ends the task
TaskRaises(c) ==
    /\ UNCHANGED notSched
    /\ task[c] = "fetch"
    /\ c \in malformed
    /\ LeaveBlock(c, "failed")
    /\ sawEmpty' = IF task'[c] \in {"done", "failed"}
                   THEN [sawEmpty EXCEPT ![c] = FALSE] ELSE sawEmpty
    /\ UNCHANGED <<found, mainVars, configVars>>

\* ------------------------------------------------------------------------
\* scrape_all_electronics

\* the exception of a failed task leaves the await loop
AwaitFailureEscapes(c) == "raised"

\* lines 177-178: the exception `await task` re-raises is caught and logged;
\* the await loop goes on with the next task
AwaitFailure(c) == "caught"

\* `await task` returns or raises at once
TaskFinishedOrNot(c) == TRUE

\* `await task` can complete: the task has returned or raised
TaskFinished(c) == task[c] \in {"done", "failed"}

\* lines 164-167: create the task of the next category of the chunk, then sleep
CreateTask ==
    /\ UNCHANGED notSched
    /\ mpc = "create"
    /\ task' = [task EXCEPT ![chunk[pos]] = "created"]
    /\ mpc' = "stagger"
    /\ UNCHANGED <<chunk_index, pos, pending_uploads, local_files, uploaded,
                   upload_calls, exported, delayed, awaitHistory, handed, page,
                   found, sawEmpty, semVars, configVars>>

\* line 167: the two seconds have elapsed; the task created before the sleep
\* was scheduled at once and has made its first step by then
StaggerElapsed ==
    /\ UNCHANGED notSched
    /\ mpc = "stagger"
    /\ task[chunk[pos]] # "created"
    /\ IF pos < Len(chunk)
       THEN mpc' = "create" /\ pos' = pos + 1
       ELSE mpc' = "await" /\ pos' = 1
    /\ UNCHANGED <<chunk_index, pending_uploads, local_files, uploaded, upload_calls,
                   exported, delayed, awaitHistory, handed, task, page, found,
                   sawEmpty, semVars, configVars>>

\* where the chunk loop goes once the tasks are awaited and the upload, if
\* any, is over (lines 181, 193)
AfterChunk(pending) ==
    IF pending # <<>> THEN "upload"
    ELSE IF chunk_index < Len(electronics_chunks) THEN "delay" ELSE "done"

\* lines 170-178: `await task` of the next task of the chunk, save_to_excel
\* when it returned cards (the file is written, or the write fails and None
\* comes back)
AwaitTask ==
    /\ UNCHANGED notSched
    /\ mpc = "await"
    /\ LET c == chunk[pos]
       IN  /\ TaskFinished(c)
           /\ awaited' = awaited \cup {c}
           /\ IF task[c] = "failed" /\ AwaitFailure(c) = "raised"
              THEN /\ mpc' = "raised"
                   /\ UNCHANGED <<pos, pending_uploads, local_files, exported, save_failed>>
              ELSE \E written \in BOOLEAN :
                LET file == task[c] = "done" /\ found[c] /\ written
                    pending == IF file THEN Append(pending_uploads, c) ELSE pending_uploads
                IN  /\ (~found[c] \/ task[c] # "done") => written
                    /\ pending_uploads' = pending
                    /\ local_files' = IF file THEN local_files \cup {c} ELSE local_files
                    /\ save_failed' = IF written THEN save_failed ELSE save_failed \cup {c}
                    /\ IF pos < Len(chunk)
                       THEN /\ pos' = pos + 1
                            /\ UNCHANGED <<mpc, exported>>
                       ELSE /\ pos' = 1
                            /\ mpc' = AfterChunk(pending)
                            /\ exported' = IF pending # <<>>
                                           THEN exported \cup {chunk_index} ELSE exported
    /\ UNCHANGED <<chunk_index, uploaded, upload_calls, delayed, handed, task, page,
                   found, sawEmpty, semVars, configVars>>

\* lines 181-190: upload_files_with_retry returns; some files were uploaded,
\* every pending file is removed from disk
UploadReturns ==
    /\ UNCHANGED notSched
    /\ mpc = "upload"
    /\ \E ok \in SUBSET {pending_uploads[i] : i \in 1..Len(pending_uploads)} :
          uploaded' = uploaded \cup ok
    /\ upload_calls' = Append(upload_calls, chunk_index)
    /\ local_files' = local_files \ {pending_uploads[i] : i \in 1..Len(pending_uploads)}
    /\ pending_uploads' = <<>>
    /\ handed' = handed \cup {pending_uploads[i] : i \in 1..Len(pending_uploads)}
    /\ mpc' = AfterChunk(<<>>)
    /\ UNCHANGED <<chunk_index, pos, exported, delayed, awaitHistory, task, page,
                   found, sawEmpty, semVars, configVars>>

\* lines 93-95, 116, 119-121: upload_files_with_retry raises (create_folder
\* raised or gave no id, or the re-authentication before a retry raised; a
\* failed look-up only returns None); files uploaded before that stay
\* uploaded, and the exception leaves scrape_all_electronics at line 182
UploadRaises ==
    /\ UNCHANGED notSched
    /\ mpc = "upload"
    /\ LET files == {pending_uploads[i] : i \in 1..Len(pending_uploads)}
       IN  /\ \E ok \in (SUBSET files) \ {files} : uploaded' = uploaded \cup ok
           /\ handed' = handed \cup files
    /\ upload_calls' = Append(upload_calls, chunk_index)
    /\ mpc' = "raised"
    /\ UNCHANGED <<chunk_index, pos, pending_uploads, local_files, exported,
                   delayed, awaitHistory, task, page, found, sawEmpty, semVars,
                   configVars>>

\* lines 193-195: chunk_delay has elapsed; the next chunk starts
ChunkDelayElapsed ==
    /\ UNCHANGED notSched
    /\ mpc = "delay"
    /\ delayed' = delayed \cup {chunk_index}
    /\ chunk_index' = chunk_index + 1
    /\ pos' = 1
    /\ mpc' = "create"
    /\ awaited' = {}
    /\ save_failed' = {}
    /\ handed' = {}
    /\ UNCHANGED <<pending_uploads, local_files, uploaded, upload_calls, exported,
                   task, page, found, sawEmpty, semVars, configVars>>

SchedNext ==
    \/ CreateTask
    \/ StaggerElapsed
    \/ AwaitTask
    \/ UploadReturns
    \/ UploadRaises
    \/ ChunkDelayElapsed
    \/ \E c \in Categories : TaskStart(c)
    \/ \E c \in Categories : TaskResume(c)
    \/ \E c \in Categories : TaskFetchRaises(c)
    \/ \E c \in Categories : TaskFetchReturns(c)
    \/ \E c \in Categories : TaskPauseElapsed(c)
    \/ \E c \in Categories : TaskRaises(c)

(***************************************************************************)
(* HierarchialMainScraper.scrape_brands_and_types                          *)
(*                                                                         *)
(* One action is one run of the coroutine from an await to the next.       *)
(* get_card_details is represented by what it hands back: it raises, or    *)
(* returns a list of cards, each with the publish date its detail page     *)
(* would give at the time of the call.                                     *)
(***************************************************************************)
\* largest num_pages / specific_pages explored
MaxDepth == 2
\* categories in `configs`
MaxConfigs == 2
\* midnights that may pass during a run
MaxMidnights == 1

Title_ab == <<"a", "b">>
Title_a_b == <<"a", "-", "b">>
Title_cd == <<"c", " ", "d">>
\* a title of 32 letters
Title_long == [i \in 1..32 |-> IF i = 32 THEN "z" ELSE "x"]

Titles == {Title_ab, Title_a_b, Title_cd, Title_long}

\* an <a> of the category page
Anchor(t, h) == [title |-> t, href |-> h]

\* what query_selector_all can return for a category page
CategoryPages ==
    {<<>>,
     <<Anchor(Title_ab, <<"/", "x">>)>>,
     <<Anchor(Title_ab, <<"/", "x">>), Anchor(Title_cd, <<"/", "y">>)>>,
     <<Anchor(Title_cd, None), Anchor(Title_long, <<"/", "y">>)>>,
     <<Anchor(Title_a_b, <<"/", "x">>), Anchor(Title_ab, <<"/", "y">>)>>,
     <<Anchor(Title_ab, <<"x", "/", "y">>),
       Anchor(Title_cd, <<"h", ":", "/", "/", "p", "/", "b">>)>>}

\* self.url, the URL of the category page: "h://o/c/d"
CategoryURL == <<"h", ":", "/", "/", "o", "/", "c", "/", "d">>

\* str.split('/', maxsplit)
RECURSIVE split(_, _)
split(text, maxsplit) ==
    LET slashes == {i \in 1..Len(text) : text[i] = "/"}
    IN  IF maxsplit = 0 \/ slashes = {} THEN <<text>>
        ELSE LET i == CHOOSE i \in slashes : \A o \in slashes : i <= o
             IN  <<SubSeq(text, 1, i - 1)>>
                    \o split(SubSeq(text, i + 1, Len(text)), maxsplit - 1)

\* line 120: self.url.split('/', 3)[0] + '//' + self.url.split('/', 3)[2]
base_url(url) == split(url, 3)[1] \o <<"/", "/">> \o split(url, 3)[3]

\* line 121: base_url + brand_link if brand_link.startswith('/') else brand_link
full_brand_link(url, brand_link) ==
    IF brand_link # <<>> /\ brand_link[1] = "/"
    THEN base_url(url) \o brand_link
    ELSE brand_link

\* line 128: f"{full_brand_link}/{page_num}"
paginated_link(link, n) == link \o <<"/">> \o ZeroPad(n, 1)

\* the entries of `configs`, with the num_pages process_all passes; a
\* specific_brands of None is written {} and a specific_pages of None 0 (the
\* constructor tests both for truth only)
Configs ==
    [num_pages : 1..MaxDepth,
     specific_brands : {{}, {Title_ab}},
     specific_pages : 0..MaxDepth]

\* lines 19-31: HierarchialMainScraper.__init__
HierarchialMainScraper(cfg) ==
    [url             |-> CategoryURL,
     num_pages       |-> cfg.num_pages,
     specific_brands |-> IF cfg.specific_brands # {} THEN cfg.specific_brands ELSE {},
     specific_pages  |-> IF cfg.specific_pages # 0
                         THEN cfg.specific_pages ELSE cfg.num_pages]

\* the depth rule with its branches exchanged
pages_to_scrape_swapped(self, t) ==
    IF t \in self.specific_brands THEN self.num_pages ELSE self.specific_pages

\* line 124
pages_to_scrape(self, t) ==
    IF t \in self.specific_brands THEN self.specific_pages ELSE self.num_pages

\* the wall clock after `ticks` midnights
RunStart == [year |-> 2025, month |-> 2, day |-> 28, hour |-> 23, minute |-> 50, second |-> 0]
Now(ticks) == SubTimedelta(RunStart, timedelta(0 - ticks, 0, 0, 0))

\* (datetime.now() - timedelta(days=1)).strftime('%Y-%m-%d')
Yesterday(ticks) == strftime_date(SubTimedelta(Now(ticks), timedelta(1, 0, 0, 0)))

\* the date_published of a card: published a day ago ("Y"), two hours ago
\* ("T"), or without a publish date ("N")
Published(kind, ticks) ==
    CASE kind = "Y" -> strftime(SubTimedelta(Now(ticks), timedelta(1, 0, 0, 0)))
      [] kind = "T" -> strftime(SubTimedelta(Now(ticks), timedelta(0, 0, 0, 2)))
      [] OTHER      -> None

\* the cards of a listing page, as lists of kinds
PageResults == {<<>>, <<"Y">>, <<"T">>, <<"T", "Y">>, <<"N">>}

\* the cards get_card_details returns for page n of brand b
CardsOf(kinds, b, n, ticks) ==
    [i \in 1..Len(kinds) |->
        [link |-> <<b, n, i>>, date_published |-> Published(kinds[i], ticks)]]

\* the next element from position i on that has an href (line 119), or 0
NextElement(elements, i) ==
    LET linked == {j \in i..Len(elements) : elements[j].href # None}
    IN  IF linked = {} THEN 0 ELSE CHOOSE j \in linked : \A o \in linked : j <= o

\* lines 115-128: the loop goes on with element i (0: no element is left and
\* self.data is returned); the first page of that brand is requested
EnterBrand(elements, i, all) ==
    /\ data' = all
    /\ brand_data' = <<>>
    /\ element_index' = i
    /\ IF i = 0
       THEN /\ hpc' = "scraped"
            /\ page_num' = 0
            /\ UNCHANGED requests
       ELSE /\ hpc' = "page"
            /\ page_num' = 1
            /\ requests' = Append(requests,
                  [element  |-> i,
                   page_num |-> 1,
                   url      |-> paginated_link(
                                   full_brand_link(scraper.url, elements[i].href), 1)])

\* a page loop that starts over with the brand it has just finished
LeaveBrandAgain(found_cards) ==
    EnterBrand(brand_elements, NextElement(brand_elements, element_index),
               Append(data, [brand_title    |-> brand_elements[element_index].title,
                             available_cars |-> found_cards]))

\* lines 136, 139, 142-146: the page loop of the brand is over
LeaveBrand(found_cards) ==
    EnterBrand(brand_elements, NextElement(brand_elements, element_index + 1),
               Append(data, [brand_title    |-> brand_elements[element_index].title,
                             available_cars |-> found_cards]))

\* lines 104-106: the browser or the category page fails
BrandsGotoRaises ==
    /\ UNCHANGED notHier
    /\ hpc = "goto"
    /\ hpc' = "raised"
    /\ UNCHANGED <<n_configs, auth_failed, config_index, config, scraper, data, clock, folder_name,
                   drive_folders, pagerVars, exportVars>>

\* lines 106-128: the category page is read
BrandsDiscovered ==
    /\ UNCHANGED notHier
    /\ hpc = "goto"
    /\ \E elements \in CategoryPages :
          /\ brand_elements' = elements
          /\ EnterBrand(elements, NextElement(elements, 1), data)
    /\ UNCHANGED <<n_configs, auth_failed, config_index, config, scraper, clock, folder_name,
                   drive_folders, exportVars>>

\* lines 129-136: get_card_details returns
BrandsFetchReturns ==
    /\ UNCHANGED notHier
    /\ hpc = "page"
    /\ \E kinds \in PageResults :
          LET card_details == CardsOf(kinds, element_index, page_num, clock)
              limit == pages_to_scrape(scraper, brand_elements[element_index].title)
          IN  IF card_details # <<>> /\ page_num < limit
              THEN /\ brand_data' = brand_data \o card_details
                   /\ page_num' = page_num + 1
                   /\ requests' = Append(requests,
                         [element  |-> element_index,
                          page_num |-> page_num + 1,
                          url      |-> paginated_link(
                                          full_brand_link(
                                             scraper.url,
                                             brand_elements[element_index].href),
                                          page_num + 1)])
                   /\ UNCHANGED <<hpc, element_index, data>>
              ELSE LeaveBrand(brand_data \o card_details)
    /\ UNCHANGED <<n_configs, auth_failed, config_index, config, scraper, brand_elements, clock,
                   folder_name, drive_folders, exportVars>>

\* lines 137-139: get_card_details raises; the brand keeps what it has
BrandsFetchRaises ==
    /\ UNCHANGED notHier
    /\ hpc = "page"
    /\ LeaveBrand(brand_data)
    /\ UNCHANGED <<n_configs, auth_failed, config_index, config, scraper, brand_elements, clock,
                   folder_name, drive_folders, exportVars>>

HierIdle ==
    /\ n_configs = 0
    /\ config_index = 0
    /\ config = <<>>
    /\ scraper = <<>>
    /\ brand_elements = <<>>
    /\ element_index = 0
    /\ page_num = 0
    /\ brand_data = <<>>
    /\ data = <<>>
    /\ requests = <<>>
    /\ hpc = "done"
    /\ clock = 0
    /\ folder_name = None
    /\ filter_date = None
    /\ excel_file = None
    /\ sheets = <<>>
    /\ disk = {}
    /\ drive_folders = <<>>
    /\ drive_files = {}
    /\ auth_failed = {}

\* a scraper built from one config, about to run scrape_brands_and_types
PagerInit ==
    /\ n_configs = 1
    /\ config_index = 1
    /\ config \in Configs
    /\ scraper = HierarchialMainScraper(config)
    /\ brand_elements = <<>>
    /\ element_index = 0
    /\ page_num = 0
    /\ brand_data = <<>>
    /\ data = <<>>
    /\ requests = <<>>
    /\ hpc = "goto"
    /\ clock = 0
    /\ folder_name = Yesterday(0)
    /\ filter_date = None
    /\ excel_file = None
    /\ sheets = <<>>
    /\ disk = {}
    /\ drive_folders = <<>>
    /\ drive_files = {}
    /\ auth_failed = {}

PagerNext ==
    \/ BrandsGotoRaises
    \/ BrandsDiscovered
    \/ BrandsFetchReturns
    \/ BrandsFetchRaises

(***************************************************************************)
(* process_all, process_hierarchial_electronics and save_to_excel          *)
(*                                                                         *)
(* scrape_brands_and_types is represented here by what it hands back: it   *)
(* raises, or returns self.data with one entry per linked brand.           *)
(***************************************************************************)
\* the cards a brand ends with, as lists of kinds
BrandKinds == {<<>>, <<"Y">>, <<"T">>, <<"T", "Y">>}

\* self.data for the linked brands of a category page
ScrapeResults(ticks) ==
    UNION {
        LET linked == SelectSeq(elements, LAMBDA a : a.href # None)
        IN  {[b \in 1..Len(linked) |->
                [brand_title    |-> linked[b].title,
                 available_cars |-> CardsOf(kinds[b], b, 1, ticks)]] :
             kinds \in [1..Len(linked) -> BrandKinds]}
        : elements \in CategoryPages}

\* str.isalnum() of one character
isalnum(ch) == ch \notin {" ", "TAB", "-", "_", "/", "&", "."}

\* the longest sheet name
SheetNameMax == 31

\* line 176
sheet_name(brand_title) ==
    LET kept == SelectSeq(brand_title, isalnum)
    IN  SubSeq(kept, 1, IF Len(kept) < SheetNameMax THEN Len(kept) ELSE SheetNameMax)

\* line 177: df.to_excel(writer, sheet_name=...); a name the writer already
\* has designates the existing sheet, whose top rows are overwritten
to_excel(written, name, rows, b) ==
    IF \E i \in 1..Len(written) : written[i].name = name
    THEN LET i == CHOOSE i \in 1..Len(written) : written[i].name = name
         IN  [written EXCEPT ![i] =
                 [name   |-> name,
                  rows   |-> rows \o SubSeq(@.rows, Len(rows) + 1, Len(@.rows)),
                  brands |-> @.brands \cup {b}]]
    ELSE Append(written, [name |-> name, rows |-> rows, brands |-> {b}])

\* lines 164-179: the sheets after the brands 1..b of brand_list
RECURSIVE write_sheets(_, _, _)
write_sheets(brand_list, b, target) ==
    IF b = 0 THEN <<>>
    ELSE LET before == write_sheets(brand_list, b - 1, target)
             yesterday_cars == filter_yesterday(brand_list[b].available_cars, target)
         IN  IF yesterday_cars # <<>>
             THEN to_excel(before, sheet_name(brand_list[b].brand_title), yesterday_cars, b)
             ELSE before

\* the .xlsx file of category k
File(k) == <<"xlsx", k>>

\* line 288 returns: the scraper of this category is dropped, and
\* process_all goes on with the next config or is over
Returned ==
    /\ hpc' = IF config_index < n_configs THEN "next" ELSE "done"
    /\ config' = <<>>
    /\ scraper' = <<>>
    /\ data' = <<>>
    /\ folder_name' = None
    /\ filter_date' = None
    /\ excel_file' = None
    /\ sheets' = <<>>

HierInit ==
    /\ n_configs \in 1..MaxConfigs
    /\ config_index = 0
    /\ config = <<>>
    /\ scraper = <<>>
    /\ brand_elements = <<>>
    /\ element_index = 0
    /\ page_num = 0
    /\ brand_data = <<>>
    /\ data = <<>>
    /\ requests = <<>>
    /\ hpc = "next"
    /\ clock = 0
    /\ folder_name = None
    /\ filter_date = None
    /\ excel_file = None
    /\ sheets = <<>>
    /\ disk = {}
    /\ drive_folders \in {<<>>, <<Yesterday(0)>>}
    /\ drive_files = {}
    /\ auth_failed = {}

\* lines 280-288 and 212-224: the next scraper is built; authenticate, the
\* folder look-up and, when the folder is absent, its creation succeed
HierStart ==
    /\ UNCHANGED notHier
    /\ hpc = "next"
    /\ config_index' = config_index + 1
    /\ \E cfg \in {c \in Configs : c.num_pages = 1} :
          /\ config' = cfg
          /\ scraper' = HierarchialMainScraper(cfg)
    /\ folder_name' = Yesterday(clock)
    /\ drive_folders' =
          IF \E i \in 1..Len(drive_folders) : drive_folders[i] = Yesterday(clock)
          THEN drive_folders ELSE Append(drive_folders, Yesterday(clock))
    /\ data' = <<>>
    /\ filter_date' = None
    /\ excel_file' = None
    /\ sheets' = <<>>
    /\ hpc' = "scrape"
    /\ UNCHANGED <<n_configs, auth_failed, clock, disk, drive_files, pagerVars>>

\* an exception of the start of a category that is logged and dropped:
\* process_all goes on with the next config
StartFailureSkipped == IF config_index + 1 < n_configs THEN "next" ELSE "done"

\* lines 244-246 and 288: the exception is logged and re-raised, and nothing
\* in process_all catches it
StartFailure == "raised"

\* lines 214-220, 244-246: authenticate, get_folder_id or create_folder
\* raises; the exception is logged, re-raised and leaves process_all
HierStartRaises ==
    /\ UNCHANGED notHier
    /\ hpc = "next"
    /\ config_index' = config_index + 1
    /\ \E cfg \in {c \in Configs : c.num_pages = 1} :
          /\ config' = cfg
          /\ scraper' = HierarchialMainScraper(cfg)
    /\ \E failing \in {"authenticate", "get_folder_id", "create_folder"} :
          /\ failing = "create_folder" =>
                ~\E i \in 1..Len(drive_folders) : drive_folders[i] = Yesterday(clock)
          /\ folder_name' = IF failing = "authenticate" THEN None ELSE Yesterday(clock)
          /\ auth_failed' = IF failing = "authenticate"
                            THEN auth_failed \cup {config_index + 1} ELSE auth_failed
    /\ data' = <<>>
    /\ filter_date' = None
    /\ excel_file' = None
    /\ sheets' = <<>>
    /\ hpc' = StartFailure
    /\ UNCHANGED <<n_configs, clock, disk, drive_folders, drive_files, pagerVars>>

\* line 224 raises (scrape_brands_and_types lets a navigation error out)
HierScrapeRaises ==
    /\ UNCHANGED notHier
    /\ hpc = "scrape"
    /\ hpc' = "raised"
    /\ UNCHANGED <<n_configs, auth_failed, config_index, config, scraper, data, clock, folder_name,
                   drive_folders, pagerVars, exportVars>>

\* lines 224-225: scrape_brands_and_types returns
HierScraped ==
    /\ UNCHANGED notHier
    /\ hpc = "scrape"
    /\ \E brand_list \in ScrapeResults(clock) :
          IF brand_list # <<>>
          THEN /\ data' = brand_list
               /\ hpc' = "save"
               /\ UNCHANGED <<config, scraper, folder_name, filter_date, excel_file,
                              sheets>>
          ELSE Returned
    /\ UNCHANGED <<n_configs, auth_failed, config_index, clock, drive_folders, pagerVars, disk,
                   drive_files>>

\* lines 237, 151-189: save_to_excel. The writer opens the file when it is
\* built; leaving the with block without a sheet makes its close raise, and
\* the except of line 187 returns None, as it does when a write fails. The
\* file may then remain on disk.
HierSave ==
    /\ UNCHANGED notHier
    /\ hpc = "save"
    /\ LET target == Yesterday(clock)
           written == write_sheets(data, Len(data), target)
       IN  /\ filter_date' = target
           /\ \E fault \in BOOLEAN, left \in BOOLEAN :
                LET none == written = <<>> \/ fault
                IN  /\ written = <<>> => ~fault
                    /\ ~none => left
                    /\ excel_file' = IF none THEN None ELSE File(config_index)
                    /\ sheets' = IF none THEN <<>> ELSE written
                    /\ disk' = IF left THEN disk \cup {File(config_index)} ELSE disk
    /\ hpc' = "saved"
    /\ UNCHANGED <<n_configs, auth_failed, config_index, config, scraper, data, clock, folder_name,
                   drive_folders, drive_files, pagerVars>>

\* line 238: no file came back
HierNoFile ==
    /\ UNCHANGED notHier
    /\ hpc = "saved"
    /\ excel_file = None
    /\ Returned
    /\ UNCHANGED <<n_configs, auth_failed, config_index, clock, drive_folders, pagerVars, disk,
                   drive_files>>

\* lines 239-242: upload_file returns an id and the local file is removed
HierUploadReturns ==
    /\ UNCHANGED notHier
    /\ hpc = "saved"
    /\ excel_file # None
    /\ drive_files' = drive_files \cup
          {[category |-> config_index, folder |-> folder_name, target |-> filter_date]}
    /\ disk' = disk \ {excel_file}
    /\ Returned
    /\ UNCHANGED <<n_configs, auth_failed, config_index, clock, drive_folders, pagerVars>>

\* lines 239, 244-246: upload_file raises
HierUploadRaises ==
    /\ UNCHANGED notHier
    /\ hpc = "saved"
    /\ excel_file # None
    /\ hpc' = "raised"
    /\ UNCHANGED <<n_configs, auth_failed, config_index, config, scraper, data, clock, folder_name,
                   drive_folders, pagerVars, exportVars>>

\* midnight passes while a category is being processed
Tick ==
    /\ UNCHANGED notHier
    /\ hpc \in {"scrape", "save", "saved"}
    /\ clock < MaxMidnights
    /\ clock' = clock + 1
    /\ UNCHANGED <<n_configs, auth_failed, config_index, config, scraper, data, hpc, folder_name,
                   drive_folders, pagerVars, exportVars>>

HierNext ==
    \/ HierStart
    \/ HierStartRaises
    \/ HierScrapeRaises
    \/ HierScraped
    \/ HierSave
    \/ HierNoFile
    \/ HierUploadReturns
    \/ HierUploadRaises
    \/ Tick

(***************************************************************************)
(* The Drive operations and their retries                                  *)
(*                                                                         *)
(* One call of get_folder_id, create_folder or upload_file as tenacity     *)
(* wraps them in HierarchialMainScraper, or the upload loop of             *)
(* ElectronicsMainScraper.upload_files_with_retry for one file.  An        *)
(* exception is represented by the name of its class.                      *)
(***************************************************************************)
\* raised by the socket and TLS layers under the Drive client
NetworkErrors == {"ConnectionError", "SSLError", "TimeoutError"}

\* raised by the Drive client for a refused request (HttpError: 401, 403,
\* 404) and by the credentials for a refused token (RefreshError)
ApiErrors == {"HttpError", "RefreshError"}

\* the subclasses of OSError among the classes above and FileNotFoundError
OSErrors == NetworkErrors \cup {"FileNotFoundError"}

\* isinstance(exc, (socket.error, ssl.SSLError, ConnectionError)), where
\* socket.error is an alias of OSError
retry_if_exception_type(exc) ==
    exc \in OSErrors \/ exc = "SSLError" \/ exc = "ConnectionError"

stop_after_attempt == 3

upload_retries == 3

TenacityMethods == {"get_folder_id", "create_folder", "upload_file"}

SinkCalls == TenacityMethods \cup {"upload_files_with_retry"}

\* what one attempt of the call can raise
Raisable(call, present) ==
    CASE call \in {"get_folder_id", "create_folder"} -> NetworkErrors \cup ApiErrors
      [] call = "upload_file" ->
            IF present THEN NetworkErrors \cup ApiErrors ELSE {"FileNotFoundError"}
      [] OTHER -> NetworkErrors \cup ApiErrors \cup {"Exception"}

SinkIdle ==
    /\ sink_call = "none"
    /\ file_present = TRUE
    /\ sink_attempt = 0
    /\ sink_raised = <<>>
    /\ sink_pc = "idle"

SinkInit ==
    /\ sink_call \in SinkCalls
    /\ file_present \in
          IF sink_call \in {"upload_file", "upload_files_with_retry"}
          THEN BOOLEAN ELSE {TRUE}
    /\ sink_attempt = 0
    /\ sink_raised = <<>>
    /\ sink_pc = "call"

\* the attempt returns an id
SinkReturns ==
    /\ UNCHANGED notSink
    /\ sink_pc = "call"
    /\ file_present
    /\ sink_attempt' = sink_attempt + 1
    /\ sink_pc' = "returned"
    /\ UNCHANGED <<sink_call, file_present, sink_raised>>

\* a wrapped method raises: tenacity retries or lets the call end
TenacityRaises ==
    /\ UNCHANGED notSink
    /\ sink_pc = "call"
    /\ sink_call \in TenacityMethods
    /\ \E exc \in Raisable(sink_call, file_present) :
          /\ sink_raised' = Append(sink_raised, exc)
          /\ sink_pc' = IF retry_if_exception_type(exc)
                           /\ sink_attempt + 1 < stop_after_attempt
                        THEN "call"
                        ELSE "raised"
    /\ sink_attempt' = sink_attempt + 1
    /\ UNCHANGED <<sink_call, file_present>>

\* the upload loop finds no local file: it logs and leaves the file
LoopSkips ==
    /\ UNCHANGED notSink
    /\ sink_pc = "call"
    /\ sink_call = "upload_files_with_retry"
    /\ ~file_present
    /\ sink_pc' = "skipped"
    /\ UNCHANGED <<sink_call, file_present, sink_attempt, sink_raised>>

\* drive_saver.upload_file raises, or returns no id, inside the upload loop
LoopRaises ==
    /\ UNCHANGED notSink
    /\ sink_pc = "call"
    /\ sink_call = "upload_files_with_retry"
    /\ file_present
    /\ \E exc \in Raisable(sink_call, file_present) :
          sink_raised' = Append(sink_raised, exc)
    /\ sink_attempt' = sink_attempt + 1
    /\ sink_pc' = IF sink_attempt < upload_retries - 1 THEN "reauth" ELSE "failed"
    /\ UNCHANGED <<sink_call, file_present>>

\* after the retry delay drive_saver.authenticate() returns
Reauthenticated ==
    /\ UNCHANGED notSink
    /\ sink_pc = "reauth"
    /\ sink_pc' = "call"
    /\ UNCHANGED <<sink_call, file_present, sink_attempt, sink_raised>>

\* drive_saver.authenticate() raises: the exception leaves the upload loop
ReauthRaises ==
    /\ UNCHANGED notSink
    /\ sink_pc = "reauth"
    /\ sink_pc' = "raised"
    /\ UNCHANGED <<sink_call, file_present, sink_attempt, sink_raised>>

SinkNext ==
    \/ SinkReturns
    \/ TenacityRaises
    \/ LoopSkips
    \/ LoopRaises
    \/ Reauthenticated
    \/ ReauthRaises

(***************************************************************************)
(* Specifications                                                          *)
(***************************************************************************)
(***************************************************************************)
(* The dated folder: SavingOnDrive.get_folder_id and create_folder as      *)
(* upload_files_with_retry and save_files call them                        *)
(***************************************************************************)
\* chunks with a file to upload, in one run
MaxUploads == 3

\* yesterday, as strftime("%Y-%m-%d") names it: the day before the run began
\* is day 0
FolderName(nights) == nights

\* positions of the folders the query of lines 32-36 matches
Matching(folders, name) == {i \in 1..Len(folders) : folders[i] = name}

\* SavingOnDrive.get_folder_id: files[0]['id'] when the listing has a match,
\* None when it has none and None when the listing raised
get_folder_id(folders, name, listing_raised) ==
    IF listing_raised \/ Matching(folders, name) = {} THEN 0
    ELSE CHOOSE i \in Matching(folders, name) :
            \A o \in Matching(folders, name) : i <= o

FolderIdle ==
    /\ parent_folder = <<>>
    /\ folder_id = 0
    /\ uploads = 0
    /\ midnights = 0
    /\ created = <<>>
    /\ fpc = "idle"

\* the run's first upload_files_with_retry call; an earlier run may have left
\* the folder of the day
FolderInit ==
    /\ parent_folder \in {<<>>, <<FolderName(0)>>}
    /\ folder_id = 0
    /\ uploads = 1
    /\ midnights = 0
    /\ created = <<>>
    /\ fpc = "lookup"

\* normal_code_main.py line 90 (save_files line 112): get_folder_id returns
GetFolderIdReturns ==
    /\ UNCHANGED notFolder
    /\ fpc = "lookup"
    /\ \E listing_raised \in BOOLEAN :
          folder_id' = get_folder_id(parent_folder, FolderName(midnights),
                                     listing_raised)
    /\ fpc' = IF folder_id' = 0 THEN "create" ELSE "upload"
    /\ UNCHANGED <<parent_folder, uploads, midnights, created>>

\* lines 91-96 (save_files line 114): create_folder returns the new id; Drive
\* makes a new folder whatever the names of the others
CreateFolderReturns ==
    /\ UNCHANGED notFolder
    /\ fpc = "create"
    /\ parent_folder' = Append(parent_folder, FolderName(midnights))
    /\ folder_id' = Len(parent_folder) + 1
    /\ created' = Append(created,
          [name    |-> FolderName(midnights),
           existed |-> Matching(parent_folder, FolderName(midnights)) # {}])
    /\ fpc' = "upload"
    /\ UNCHANGED <<uploads, midnights>>

\* create_folder raises (lines 77-80), upload_files_with_retry logs and raises
\* again (lines 119-121), and line 182 has no handler
CreateFolderRaises ==
    /\ UNCHANGED notFolder
    /\ fpc = "create"
    /\ fpc' = "raised"
    /\ UNCHANGED <<parent_folder, folder_id, uploads, midnights, created>>

\* lines 98-123 and 184-195: the files are uploaded, the chunk ends, and the
\* next chunk with a file, if there is one, calls upload_files_with_retry
UploadsReturn ==
    /\ UNCHANGED notFolder
    /\ fpc = "upload"
    /\ folder_id' = 0
    /\ \/ /\ uploads < MaxUploads
          /\ uploads' = uploads + 1
          /\ midnights' \in {n \in {midnights, midnights + 1} : n <= MaxMidnights}
          /\ fpc' = "lookup"
       \/ /\ fpc' = "done"
          /\ UNCHANGED <<uploads, midnights>>
    /\ UNCHANGED <<parent_folder, created>>

FolderNext ==
    \/ GetFolderIdReturns
    \/ CreateFolderReturns
    \/ CreateFolderRaises
    \/ UploadsReturn

Init == DetailInit /\ PureIdle /\ SchedIdle /\ HierIdle /\ SinkIdle /\ FolderIdle

Next == DetailNext

Spec == Init /\ [][Next]_vars

InitPure == DetailIdle /\ PureInit /\ SchedIdle /\ HierIdle /\ SinkIdle /\ FolderIdle

NextPure == PureNext

SpecPure == InitPure /\ [][NextPure]_vars

InitSched == DetailIdle /\ PureIdle /\ SchedInit /\ HierIdle /\ SinkIdle /\ FolderIdle

NextSched == SchedNext

SpecSched == InitSched /\ [][NextSched]_vars

\* the event loop runs every callback that is ready, every sleep elapses and
\* every get_card_details call comes back: a step that can be taken is taken
SchedFairness == WF_vars(NextSched)

SpecSchedFair == InitSched /\ [][NextSched]_vars /\ SchedFairness

InitPager == DetailIdle /\ PureIdle /\ SchedIdle /\ PagerInit /\ SinkIdle /\ FolderIdle

NextPager == PagerNext

SpecPager == InitPager /\ [][NextPager]_vars

InitHier == DetailIdle /\ PureIdle /\ SchedIdle /\ HierInit /\ SinkIdle /\ FolderIdle

NextHier == HierNext

SpecHier == InitHier /\ [][NextHier]_vars

InitSink == DetailIdle /\ PureIdle /\ SchedIdle /\ HierIdle /\ SinkInit /\ FolderIdle

NextSink == SinkNext

SpecSink == InitSink /\ [][NextSink]_vars

InitFolder ==
    DetailIdle /\ PureIdle /\ SchedIdle /\ HierIdle /\ SinkIdle /\ FolderInit

NextFolder == FolderNext

SpecFolder == InitFolder /\ [][NextFolder]_vars

(***************************************************************************)
(* Properties of get_card_details / scrape_more_details (under Spec)       *)
(***************************************************************************)
\* the card appended by the latest scrape_more_details call
LastCard == cards[Len(cards)]

\* C3: when attempts 1 and 2 of scrape_more_details fail and the source
\* serves attempt 3 (page loads, all fields extractable), the returned record
\* carries the extracted values and is not the empty record.
C3_RetrySuccess ==
    (lastResolve.tries = DetailRetries /\ lastResolve.served)
        => /\ lastResolve.value # EmptyDict
           /\ LastCard.id # None
           /\ LastCard.relative_date # None
           /\ LastCard.date_published # None

\* C4: when every attempt of scrape_more_details fails, nothing is raised into
\* get_card_details; the call returns the empty record after DetailRetries
\* attempts and every detail field of the card built from it is None.
C4_RetryExhaustion ==
    /\ lastExc # "detail"
    /\ lastResolve.raised =>
          /\ lastResolve.tries = DetailRetries
          /\ lastResolve.value = EmptyDict
          /\ \A k \in DetailKeys : LastCard[k] = None

\* a listing whose three attempts all failed was followed, in the same page
\* attempt, by the extraction of the next listing
C4_Witness ==
    /\ Len(cards) >= 2
    /\ attempt = 0
    /\ lastResolve.raised
    /\ lastResolve.link = 2
    /\ cards[1].link = 1
    /\ cards[1].id = None

\* C5: the list returned after a failed page attempt and a later one holds
\* only what the later attempt produced: no listing of the page is in it twice.
C5_NoCarryOver ==
    \A i, j \in 1..Len(cards) : i # j => cards[i].link # cards[j].link

\* C6: an attempt whose page loads and in which at most one field cannot be
\* extracted is not a whole-attempt failure.
C6_FieldIsolation ==
    (lastTry.seen /\ lastTry.b.nav) => ~lastTry.raised

(***************************************************************************)
(* Properties of the normalizer and the filter (under SpecPure)            *)
(***************************************************************************)
\* text contains digits, then white space, then a supported unit token
HasPattern(text) ==
    \E i \in 1..Len(text), j \in 1..Len(text), k \in 1..Len(text) :
        /\ i <= j /\ j < k
        /\ \A x \in i..j : IsDigit(text[x])
        /\ \A x \in (j + 1)..k : IsSpace(text[x])
        /\ \E a \in 1..Len(UnitAlternatives) :
              /\ k + Len(UnitAlternatives[a]) <= Len(text)
              /\ \A x \in 1..Len(UnitAlternatives[a]) :
                    LowerChar(text[k + x]) = UnitAlternatives[a][x]

\* text has the layout YYYY-MM-DD HH:MM:SS
IsTimestamp(text) ==
    /\ Len(text) = 19
    /\ text[5] = "-" /\ text[8] = "-" /\ text[11] = " "
    /\ text[14] = ":" /\ text[17] = ":"
    /\ \A x \in (1..19) \ {5, 8, 11, 14, 17} : IsDigit(text[x])

\* the instant a timestamp names
ParseTimestamp(text) ==
    [year   |-> int(SubSeq(text, 1, 4)),   month  |-> int(SubSeq(text, 6, 7)),
     day    |-> int(SubSeq(text, 9, 10)),  hour   |-> int(SubSeq(text, 12, 13)),
     minute |-> int(SubSeq(text, 15, 16)), second |-> int(SubSeq(text, 18, 19))]

RECURSIVE DaysToYear(_)
DaysToYear(y) ==
    IF y <= 2020 THEN 0
    ELSE DaysToYear(y - 1) + (IF IsLeap(y - 1) THEN 366 ELSE 365)

\* seconds elapsed since 2020-01-01 00:00:00
SecondsSince2020(dt) ==
    (DaysToYear(dt.year) + DaysBeforeMonth(dt.year, dt.month) + dt.day - 1) * 86400
        + dt.hour * 3600 + dt.minute * 60 + dt.second

UnitSeconds(unit) ==
    CASE unit = "second" -> 1
      [] unit = "minute" -> 60
      [] unit = "hour"   -> 3600
      [] unit = "day"    -> 86400

\* n calendar months before dt, the day clamped to the target month
MonthsBefore(dt, n) ==
    LET idx == dt.year * 12 + (dt.month - 1) - n
        y   == idx \div 12
        m   == (idx % 12) + 1
    IN  [dt EXCEPT !.year = y, !.month = m,
                   !.day = IF dt.day > DaysInMonth(y, m) THEN DaysInMonth(y, m) ELSE dt.day]

\* C9: for a phrase made of a magnitude n, white space and a supported unit
\* token (either language, any case), the result is the timestamp of the
\* capture instant minus n of that unit; months are calendar months with the
\* day clamped, never a fixed number of days and never days.
C9_Arithmetic ==
    phrase.unit # "none" =>
        /\ IsTimestamp(date_published)
        /\ LET r == ParseTimestamp(date_published)
           IN  IF phrase.unit = "month"
               THEN r = MonthsBefore(current_time, phrase.n)
               ELSE /\ r.month \in 1..12 /\ r.day \in 1..DaysInMonth(r.year, r.month)
                    /\ r.hour < 24 /\ r.minute < 60 /\ r.second < 60
                    /\ SecondsSince2020(r) =
                         SecondsSince2020(current_time) - phrase.n * UnitSeconds(phrase.unit)

\* "1 month" (Arabic token) captured on 2024-03-31 gives 2024-02-29
C9_Witness ==
    /\ phrase.unit = "month"
    /\ phrase.n = 1
    /\ phrase.text = <<"1", " ", "AR_sheen", "AR_heh", "AR_reh">>
    /\ current_time.day = 31 /\ current_time.month = 3
    /\ date_published =
         <<"2", "0", "2", "4", "-", "0", "2", "-", "2", "9", " ",
           "0", "0", ":", "0", "0", ":", "3", "0">>

\* C8: a phrase with no (number, white space, supported unit) pattern yields
\* the value "Invalid Relative Time" (None when the phrase is empty), the
\* record keeps that value as its publish date, and no such record is in the
\* filter's output.
C8_Unrecognized ==
    /\ (phrase.text # None /\ ~HasPattern(phrase.text)) =>
          date_published = IF phrase.text = <<>> THEN None ELSE InvalidRelativeTime
    /\ \A i \in 1..Len(cars) :
          (cars[i].relative_date # None /\ ~HasPattern(cars[i].relative_date)) =>
              cars[i].date_published = InvalidRelativeTime
    /\ filtered =>
          \A i \in 1..Len(card_data) :
              /\ card_data[i].relative_date # None
              /\ HasPattern(card_data[i].relative_date)
              /\ card_data[i].date_published # InvalidRelativeTime

\* "5hours" was resolved to the invalid marker and filtered out while another
\* record of the same list was kept
C8_Witness ==
    /\ filtered
    /\ Len(card_data) = 1
    /\ Len(cars) = 2
    /\ cars[1].relative_date = <<"5", "h", "o", "u", "r", "s">>
    /\ cars[1].date_published = InvalidRelativeTime
    /\ card_data[1] = cars[2]

\* the leading date component of a publish date: its first ten characters
LeadingDate(text) == IF Len(text) >= 10 THEN SubSeq(text, 1, 10) ELSE text

InWindow(car) ==
    /\ car.date_published # None
    /\ LeadingDate(car.date_published) = yesterday

\* C7: the filter's output is exactly the records whose publish date is not
\* None and whose leading date component is the target date, in input order;
\* no record with a None or unparsed publish date is in it.
C7_FilterResult ==
    filtered =>
        /\ card_data = SelectSeq(cars, InWindow)
        /\ \A i \in 1..Len(card_data) :
              card_data[i].date_published \notin {None, InvalidRelativeTime}

\* of three records the first and third are in the window and the second,
\* whose publish date is None, is not
C7_Witness ==
    /\ filtered
    /\ Len(cars) = 3
    /\ cars[2].date_published = None
    /\ card_data = <<cars[1], cars[3]>>
    /\ cars[1].date_published # cars[3].date_published

\* C26: filtering the filter's output again by the same date gives the same
\* list, the same records in the same order.
C26_FilterIdempotent ==
    filtered => filter_yesterday(card_data, yesterday) = card_data

\* a list of three records of which the filter kept two and dropped one
C26_Witness ==
    /\ filtered
    /\ Len(cars) = 3
    /\ Len(card_data) = 2
    /\ filter_yesterday(card_data, yesterday) = card_data

(***************************************************************************)
(* Properties of the scheduler (under SpecSched)                           *)
(***************************************************************************)
\* the category tasks inside the `async with semaphore` block
Holders == {c \in Categories : task[c] \in {"fetch", "pause"}}

\* C2: at most max_concurrent_links category tasks are inside the
\* `async with semaphore` block of scrape_electronic at any time.
C2_ConcurrencyBound == Cardinality(Holders) <= max_concurrent_links

\* two tasks hold the two permits while a third waits for one
C2_Witness ==
    /\ max_concurrent_links = 2
    /\ Cardinality(Holders) = 2
    /\ \E c \in Categories : task[c] = "waiting"

\* the chunk a category belongs to
ChunkOf(c) == ((c - 1) \div chunk_size) + 1

\* C10: when a task of chunk k+1 exists, every task of chunk k has finished,
\* the files chunk k produced were handed to upload_files_with_retry, and the
\* chunk delay after chunk k has elapsed; upload is called at most once per
\* chunk, while that chunk is the current one.
C10_ChunkProtocol ==
    /\ \A c \in Categories :
          (task[c] # "absent" /\ ChunkOf(c) > 1) =>
              LET k == ChunkOf(c) - 1
              IN  /\ \A d \in Categories :
                        ChunkOf(d) = k => task[d] \in {"done", "failed"}
                  /\ k \in exported => \E i \in 1..Len(upload_calls) : upload_calls[i] = k
                  /\ k \in delayed
    /\ \A i, j \in 1..Len(upload_calls) : i # j => upload_calls[i] # upload_calls[j]
    /\ \A k \in exported :
          k < chunk_index => \E i \in 1..Len(upload_calls) : upload_calls[i] = k

\* the first task of chunk 2 exists after chunk 1 was exported and uploaded
C10_Witness ==
    /\ chunk_index = 2
    /\ task[chunk[1]] # "absent"
    /\ 1 \in exported
    /\ upload_calls = <<1>>
    /\ uploaded # {}

\* C1 (scrape_electronic): once a page of a URL template came back with no
\* listing, no later page of that template is requested.
C1_StopRuleNormal ==
    \A c \in Categories : sawEmpty[c] => task[c] # "fetch"

\* chunks whose await loop and upload stage are over
Processed ==
    {k \in 1..Len(electronics_chunks) :
        k < chunk_index \/ (k = chunk_index /\ mpc \in {"delay", "done", "raised"})}

\* C11: when the task of one category of a chunk raised, every other task of
\* that chunk was still awaited and ran to its end, and each sibling that
\* returned cards and whose file was written had that file handed to upload.
\* Stated of the chunk the loop is at, once its await loop and upload are over.
C11_SiblingIsolation ==
    mpc \in {"delay", "done", "raised"} =>
        \A c \in Categories :
            (ChunkOf(c) = chunk_index /\ task[c] = "failed") =>
                \A d \in Categories :
                    ChunkOf(d) = chunk_index =>
                        /\ d \in awaited
                        /\ task[d] \in {"done", "failed"}
                        /\ (task[d] = "done" /\ found[d] /\ d \notin save_failed)
                              => d \in handed

\* category 1 failed and its sibling's file went to the upload stage
C11_Witness ==
    /\ 1 \in Processed
    /\ task[1] = "failed"
    /\ \E d \in Categories : d # 1 /\ ChunkOf(d) = 1 /\ d \in handed /\ d \in uploaded

\* C12: an upload stage that failed does not end the run: when
\* scrape_all_electronics is over, every category has been scraped.
C12_RunContinues ==
    mpc \in {"done", "raised"} => \A c \in Categories : task[c] # "absent"

\* C16 (scrape_electronic): after get_card_details raised for a page of a URL
\* template, no higher page of that template is requested. A task that is in
\* "fetch" has a get_card_details call in flight; it stays in "fetch" across a
\* step only when that call raised (a call that returns leads to "pause").
C16_StopOnError ==
    [][\A c \in Categories :
          (task[c] = "fetch" /\ task'[c] = "fetch") => page'[c] = page[c]]_vars

(***************************************************************************)
(* Properties of scrape_brands_and_types (under SpecPager)                 *)
(***************************************************************************)
\* the depth limit the configuration gives a brand title
DepthLimit(t) ==
    IF t \in config.specific_brands /\ config.specific_pages # 0
    THEN config.specific_pages
    ELSE config.num_pages

\* C20: every page requested for a brand has an index within 1..limit, and at
\* most limit pages are requested for it, where limit is specific_pages when
\* the brand title is in specific_brands and num_pages otherwise.
C20_PageDepth ==
    /\ \A k \in 1..Len(requests) :
          /\ requests[k].page_num >= 1
          /\ requests[k].page_num <= DepthLimit(brand_elements[requests[k].element].title)
    /\ \A e \in 1..Len(brand_elements) :
          Cardinality({k \in 1..Len(requests) : requests[k].element = e})
              <= DepthLimit(brand_elements[e].title)

\* a listed brand was paged up to an override depth above the default, and
\* another brand of the same category stopped at the default
C20_Witness ==
    /\ hpc = "scraped"
    /\ config.specific_pages > config.num_pages
    /\ \E k \in 1..Len(requests) :
          /\ brand_elements[requests[k].element].title = Title_ab
          /\ requests[k].page_num = config.specific_pages
    /\ \E e \in 1..Len(brand_elements) :
          /\ brand_elements[e].title = Title_cd
          /\ Cardinality({k \in 1..Len(requests) : requests[k].element = e})
                = config.num_pages

\* C19 (scrape_brands_and_types): the request of the next page of a brand is
\* never issued in the step that ends the fetch of the previous page: a
\* page_delay lies between the two.
C19_PageDelay ==
    [][~(hpc = "page" /\ hpc' = "page" /\ element_index' = element_index
         /\ page_num' = page_num + 1)]_vars

(***************************************************************************)
(* Properties of process_all and save_to_excel (under SpecHier)            *)
(***************************************************************************)
\* C13: a category whose processing raised does not end the run: when
\* process_all is over, every configured category has been taken up.
C13_CategoryIsolation ==
    hpc \in {"done", "raised"} => config_index = n_configs

\* C15: every uploaded file lies in the folder named after the target date
\* its rows were filtered by.
C15_DateSync ==
    \A f \in drive_files : f.folder = f.target

\* no brand of self.data has a card published on the target date
NothingQualifies ==
    \A b \in 1..Len(data) : filter_yesterday(data[b].available_cars, filter_date) = <<>>

\* C17: after save_to_excel ran for a category none of whose brands has a
\* record published on the target date, None was returned and no file of
\* the category exists on disk.
C17_NoArtifact ==
    (hpc = "saved" /\ NothingQualifies) =>
        /\ excel_file = None
        /\ File(config_index) \notin disk

\* the brands of self.data with a record published on the target date
Qualifying ==
    {b \in 1..Len(data) : filter_yesterday(data[b].available_cars, filter_date) # <<>>}

\* C18: the exported file has exactly one sheet per qualifying brand; that
\* sheet is named after the brand title (alphanumerics, 31 characters at
\* most), holds exactly the brand's qualifying records, and no sheet holds
\* records of two brands.
C18_SheetPerBrand ==
    (hpc = "saved" /\ excel_file # None) =>
        /\ Len(sheets) = Cardinality(Qualifying)
        /\ \A b \in Qualifying :
              \E i \in 1..Len(sheets) :
                 /\ sheets[i].name = sheet_name(data[b].brand_title)
                 /\ sheets[i].rows = filter_yesterday(data[b].available_cars, filter_date)
                 /\ sheets[i].brands = {b}

(***************************************************************************)
(* Properties of the Drive operations (under SpecSink)                     *)
(***************************************************************************)
\* the errors the retry policy is meant for
Transient(exc) == exc \in NetworkErrors

\* the i-th failed attempt of the call was followed by another attempt
Retried(i) == i < sink_attempt \/ sink_pc = "call"

\* C14: a call of get_folder_id, create_folder or upload_file, wrapped by
\* tenacity or driven by the upload loop, makes at most 3 attempts, and a
\* further attempt follows a failed one only when the error was a transient
\* network/TLS error: an authentication failure or a missing file ends the
\* call after the first attempt.
C14_RetryPolicy ==
    /\ sink_attempt <= 3
    /\ \A i \in 1..Len(sink_raised) : Retried(i) => Transient(sink_raised[i])

\* the requests made for the brand of request i before request i
EarlierRequests(i) ==
    {j \in 1..(i - 1) : requests[j].element = requests[i].element}

\* C21: the pages of one brand are requested in the order 1, 2, 3, ...: each
\* request is for the page after the brand's latest earlier request; the
\* only get_card_details call in flight is the latest request, so page N is
\* requested after the call for page N-1 is over and no two pages of a brand
\* are in flight together.
C21_PageOrder ==
    /\ \A i \in 1..Len(requests) :
          requests[i].page_num = Cardinality(EarlierRequests(i)) + 1
    /\ hpc = "page" =>
          /\ requests # <<>>
          /\ requests[Len(requests)].element = element_index
          /\ requests[Len(requests)].page_num = page_num

\* the second page of a brand was requested after its first
C21_Witness ==
    /\ Len(requests) >= 2
    /\ requests[1].element = requests[2].element
    /\ requests[2].page_num = 2

(***************************************************************************)
(* Progress of the category tasks (under SpecSchedFair)                    *)
(***************************************************************************)
\* the task of category c has been created and has not entered the block
Acquiring(c) == c \in Categories /\ task[c] \in {"created", "waiting"}

\* the task of category c is inside `async with semaphore`
Holding(c) == c \in Categories /\ task[c] \in {"fetch", "pause"}

\* the task of category c has left the block
Released(c) == c \in Categories /\ task[c] \in {"done", "failed"}

\* C22: every category task that was created gets the permit, and every task
\* that holds the permit gives it back: no task waits on the semaphore for
\* ever.
C22_NoStarvation ==
    \A c \in 1..MaxCats :
        /\ Acquiring(c) ~> Holding(c)
        /\ Holding(c) ~> Released(c)

\* a task that had to wait has been handed the permit by a release
C22_Witness ==
    \E c \in Categories : task[c] = "waiting" /\ c \in sem_woken

C24_DetailBound ==
    /\ pc = "detail" => dAttempt < retries
    /\ lastResolve.tries <= retries

(***************************************************************************)
(* Properties of the chunk list (under SpecSched)                          *)
(***************************************************************************)
\* the chunks one after the other
RECURSIVE Concatenated(_)
Concatenated(chunks) ==
    IF chunks = <<>> THEN <<>> ELSE Head(chunks) \o Concatenated(Tail(chunks))

\* C25: the chunks are consecutive slices of the category order: every chunk
\* but the last has chunk_size categories, the last has between 1 and
\* chunk_size, and the chunks put end to end are the category list, so every
\* category is in exactly one chunk.
C25_ChunkPartition ==
    LET m == Len(electronics_chunks)
    IN  /\ \A k \in 1..(m - 1) : Len(electronics_chunks[k]) = chunk_size
        /\ m > 0 => Len(electronics_chunks[m]) \in 1..chunk_size
        /\ Concatenated(electronics_chunks) = [x \in 1..electronics_data |-> x]

\* the run is in its last chunk, which is shorter than the others
C25_Witness ==
    /\ electronics_data = 3
    /\ chunk_size = 2
    /\ chunk_index = 2
    /\ Len(chunk) = 1
    /\ task[3] = "fetch"

(***************************************************************************)
(* Browsing contexts of the category tasks (under SpecSched)               *)
(***************************************************************************)
\* the category tasks with a get_card_details call in flight
Fetching == {c \in Categories : task[c] = "fetch"}

\* the browser the call in flight of task c works on
BrowserInUse(c) == launch(c, page[c])

IsAbsolute(href) ==
    \E i \in 1..(Len(href) - 2) : SubSeq(href, i, i + 2) = <<":", "/", "/">>

\* text begins with prefix
StartsWith(text, prefix) ==
    Len(text) >= Len(prefix) /\ SubSeq(text, 1, Len(prefix)) = prefix

\* C28: the brand URL behind every request is the anchor's href as it is
\* when the href is absolute, and begins with the scheme and host of the
\* category URL when it is not, root-relative or path-relative; brands are
\* taken in anchor order.
C28_BrandURL ==
    /\ \A i \in 1..Len(requests) :
          LET href == brand_elements[requests[i].element].href
          IN  IF IsAbsolute(href)
              THEN requests[i].url = paginated_link(href, requests[i].page_num)
              ELSE StartsWith(requests[i].url, base_url(scraper.url) \o <<"/">>)
    /\ \A i, j \in 1..Len(requests) :
          i < j => requests[i].element <= requests[j].element

\* C29: a local export file is removed from disk only if an upload of that
\* file returned a file id: no step takes a file off the disk unless the
\* file is in the Drive folder after the step.
C29_DeleteAfterUpload ==
    [][\A c \in local_files : c \notin local_files' => c \in uploaded']_vars

\* C30: over a run, create_folder(name) is called only when no folder of that
\* name is under the parent, also when the look-up failed with an error, so
\* the parent never holds two folders of the same name.
C30_CreateOnlyWhenAbsent ==
    /\ \A i \in 1..Len(created) : ~created[i].existed
    /\ \A i, j \in 1..Len(parent_folder) :
          i # j => parent_folder[i] # parent_folder[j]

\* tasks that have a permit: inside the block, or a waiter that release()
\* has handed the permit and that has not resumed yet
PermitHolders ==
    {c \in Categories :
        \/ task[c] \in {"fetch", "pause"}
        \/ task[c] = "waiting" /\ c \in sem_woken}

\* C31: the permits held by category tasks and the permits available add up
\* to max_concurrent_links in every state; a task gives its permit back on
\* every way out of scrape_electronic, so once the tasks of a chunk have all
\* been awaited all permits are available.
C31_PermitConservation ==
    /\ Cardinality(PermitHolders) + sem_value = max_concurrent_links
    /\ \A c \in sem_woken : task[c] = "waiting"
    /\ mpc \in {"upload", "delay", "done", "raised"}
          => /\ sem_value = max_concurrent_links
             /\ \A i \in 1..Len(chunk) : task[chunk[i]] \in {"done", "failed"}

\* a chunk of two tasks on one permit has ended: one task returned, the other
\* left the block by an exception, and the permit is available again
C31_Witness ==
    /\ max_concurrent_links = 1
    /\ sem_value = 1
    /\ \E c, d \in Categories :
          /\ ChunkOf(c) = ChunkOf(d)
          /\ task[c] = "failed"
          /\ task[d] = "done"
    /\ \A c \in Categories : task[c] \in {"absent", "done", "failed"}

\* get_card_details has returned after its last attempt failed: the card loop
\* never reached the end of the page's cards
Exhausted == pc = "done" /\ (card_cards = 0 \/ lastResolve.link # card_cards)

\* C32: get_card_details makes at most `retries` navigation attempts for its
\* URL and stops at the first one that completes; when every attempt failed
\* it has made exactly `retries` attempts and the list it returns to the
\* pagination caller is empty.
C32_PageFetchBound ==
    /\ attempt < retries
    /\ (pc = "done" /\ ~Exhausted) => Len(cards) >= card_cards
    /\ Exhausted => (attempt + 1 = retries /\ cards = <<>>)

\* the terminal state of scrape_all_electronics: the chunk loop has ended
\* after the last chunk and every category task has finished
AllChunksProcessed ==
    /\ mpc = "done"
    /\ chunk_index = Len(electronics_chunks)
    /\ \A c \in Categories : task[c] \in {"done", "failed"}

\* C33: once Drive is set up, and with every navigation returning or timing
\* out, scrape_all_electronics eventually reaches the terminal state in which
\* every chunk has been processed.
C33_Termination == <>AllChunksProcessed

====
